---- MODULE Spec2Model ----
(***************************************************************************)
(* Report-X: the Data Quality & Insight Engine.                            *)
(*                                                                         *)
(* DataProcessor (load_data, detect_column_types, profile_data,            *)
(* clean_data), the upload handling of app.py, AnomalyDetector,            *)
(* TrendAnalyzer and BusinessInsightGenerator, modelled over small         *)
(* DataFrames.  A cell is a record [k, s, n, d]: k is its kind ("null" for *)
(* NaN/None, "num" for a finite float n/d in lowest terms, "inf" for a     *)
(* float infinity of sign n, "str" for a string).                          *)
(***************************************************************************)
EXTENDS Integers, Sequences, FiniteSets, TLC

(***************************************************************************)
(* Bounds of the model.                                                    *)
(***************************************************************************)
\* rows of an uploaded table in the processor life cycle
MaxRows == 3
\* calls of clean_data on one processor
MaxCleans == 2
\* largest finite float (the stand-in for 1.797e308): a sum above it is inf
FloatMax == 100
\* the magnitude from which floats are two apart (the stand-in for 2^53):
\* below it the results of the model's operations are held exactly
FloatExact == 64
\* rows of a column handed to type inference alone
MaxTypeRows == 421
\* rows of a table handed to the anomaly detector alone
MaxOutlierRows == 5

\* the greatest number of rows of a dataset handed to the insight generator
MaxActionRows == 6

\* the number of rows of the datasets that are analysed and reported on
ReportRows == 10

\* the greatest number of rows of a column whose trend is analysed
MaxTrendRows == 4

\* the greatest number of rows of a dataset that is cleaned after its load
MaxCleanRows == 6

\* the greatest number of rows of a column whose halves are compared
MaxSteadyRows == 4

\* the greatest number of rows of a column that is both profiled and searched
\* for outliers
MaxFlagRows == 4

\* the greatest number of rows of a dataset whose column types change when
\* it is cleaned
MaxRetypeRows == 41

(***************************************************************************)
(* Program constants.                                                      *)
(***************************************************************************)
\* unique_count <= 20
CategoricalMaxUnique == 20
\* unique_count / len(df) < 0.05, in percent
CategoricalRatioPct == 5
\* len(series) < 4: too few values for the IQR test
MinOutlierValues == 4
\* self.numeric_cols[:5]
MaxOutlierCols == 5

(***************************************************************************)
(* Cells and float arithmetic.                                             *)
(***************************************************************************)
Abs(i) == IF i < 0 THEN -i ELSE i

RECURSIVE Gcd(_, _)
Gcd(a, b) == IF b = 0 THEN a ELSE Gcd(b, a % b)

NULL == [k |-> "null", s |-> "", n |-> 0, d |-> 1]

\* the float n/d (d > 0), in lowest terms
Num(n, d) ==
    LET g == Gcd(Abs(n), d)
    IN  IF g = 0 THEN [k |-> "num", s |-> "", n |-> 0, d |-> 1]
        ELSE [k |-> "num", s |-> "", n |-> n \div g, d |-> d \div g]

IntVal(i) == Num(i, 1)

Inf(sign) == [k |-> "inf", s |-> "", n |-> sign, d |-> 1]

Str(s) == [k |-> "str", s |-> s, n |-> 0, d |-> 1]

\* the booleans True and False, as read_csv parses the words true and false
Bool(b) == [k |-> "bool", s |-> "", n |-> IF b THEN 1 ELSE 0, d |-> 1]

\* the string "w01", "w02", ...: a family of distinct lower-case words
Word(i) == [k |-> "str", s |-> "w", n |-> i, d |-> 1]

IsNa(v) == v.k = "null"

\* the float nearest to FloatExact + m / d (m >= 0): one of the floats
\* FloatExact + 2 * k, and of two equally near ones the one with k even
nearest_above(m, d) ==
    IF m % (2 * d) < d THEN FloatExact + 2 * (m \div (2 * d))
    ELSE IF m % (2 * d) > d THEN FloatExact + 2 * ((m \div (2 * d)) + 1)
    ELSE IF (m \div (2 * d)) % 2 = 0 THEN FloatExact + 2 * (m \div (2 * d))
    ELSE FloatExact + 2 * ((m \div (2 * d)) + 1)

\* IEEE round to nearest, ties to even: a result of magnitude FloatExact or
\* more is replaced by the nearest float
Nearest(v) ==
    IF v.k = "num" /\ v.n >= FloatExact * v.d
    THEN Num(nearest_above(v.n - FloatExact * v.d, v.d), 1)
    ELSE IF v.k = "num" /\ -v.n >= FloatExact * v.d
    THEN Num(-nearest_above(-v.n - FloatExact * v.d, v.d), 1)
    ELSE v

\* IEEE: a finite result beyond the largest float is an infinity, any other
\* result is rounded
Overflow(v) ==
    IF v.k = "num" /\ v.n > FloatMax * v.d THEN Inf(1)
    ELSE IF v.k = "num" /\ -v.n > FloatMax * v.d THEN Inf(-1)
    ELSE Nearest(v)

\* a < b on floats; any comparison with NaN is false
XLt(a, b) ==
    IF a.k = "null" \/ b.k = "null" THEN FALSE
    ELSE IF a.k = "inf" THEN a.n < 0 /\ ~(b.k = "inf" /\ b.n < 0)
    ELSE IF b.k = "inf" THEN b.n > 0
    ELSE a.n * b.d < b.n * a.d

XNeg(a) ==
    IF a.k = "null" THEN NULL
    ELSE IF a.k = "inf" THEN Inf(-a.n)
    ELSE Num(-a.n, a.d)

XAdd(a, b) ==
    IF a.k = "null" \/ b.k = "null" THEN NULL
    ELSE IF a.k = "inf" /\ b.k = "inf" THEN (IF a.n = b.n THEN a ELSE NULL)
    ELSE IF a.k = "inf" THEN a
    ELSE IF b.k = "inf" THEN b
    ELSE Overflow(Num(a.n * b.d + b.n * a.d, a.d * b.d))

XSub(a, b) == XAdd(a, XNeg(b))

\* a * (p/q) for a rational p/q >= 0 (q > 0); inf * 0 is NaN
XScale(a, p, q) ==
    IF a.k = "null" THEN NULL
    ELSE IF a.k = "inf" THEN (IF p = 0 THEN NULL ELSE a)
    ELSE Overflow(Num(a.n * p, a.d * q))

\* the sign of a float; 0 for NaN
Sign(a) == IF a.k = "null" \/ a.n = 0 THEN 0 ELSE IF a.n > 0 THEN 1 ELSE -1

XMul(a, b) ==
    IF a.k = "null" \/ b.k = "null" THEN NULL
    ELSE IF a.k = "inf" \/ b.k = "inf"
         THEN (IF Sign(a) * Sign(b) = 0 THEN NULL ELSE Inf(Sign(a) * Sign(b)))
    ELSE Overflow(Num(a.n * b.n, a.d * b.d))

\* a / b for finite a and finite b # 0
XDiv(a, b) ==
    IF a.k # "num" \/ b.k # "num" \/ b.n = 0 THEN NULL
    ELSE Overflow(Num(Sign(b) * a.n * b.d, a.d * Abs(b.n)))

(***************************************************************************)
(* Sequences.                                                              *)
(***************************************************************************)
Range(f) == {f[i] : i \in DOMAIN f}

RECURSIVE SumSeq(_)
SumSeq(q) == IF q = <<>> THEN IntVal(0) ELSE XAdd(Head(q), SumSeq(Tail(q)))

\* insert v into the ascending sequence q
RECURSIVE Insert(_, _)
Insert(v, q) ==
    IF q = <<>> THEN <<v>>
    ELSE IF XLt(v, Head(q)) THEN <<v>> \o q
    ELSE <<Head(q)>> \o Insert(v, Tail(q))

RECURSIVE SortNums(_)
SortNums(q) == IF q = <<>> THEN <<>> ELSE Insert(Head(q), SortNums(Tail(q)))

(***************************************************************************)
(* DataFrames: cols is the sequence of column names, rows the sequence of  *)
(* rows, each a sequence of cells aligned with cols.  A frame with no      *)
(* columns still has its index (len(df) = Len(rows)).                      *)
(***************************************************************************)
None == [none |-> TRUE, cols |-> <<>>, rows |-> <<>>]

Frame(cols, rows) == [none |-> FALSE, cols |-> cols, rows |-> rows]

\* df.iloc[:, j]
ColumnAt(df, j) == [i \in 1..Len(df.rows) |-> df.rows[i][j]]

\* the positions of the columns named name
Positions(df, name) == {j \in 1..Len(df.cols) : df.cols[j] = name}

\* df[name] for a name that labels one column
ColumnNamed(df, name) ==
    ColumnAt(df, CHOOSE j \in Positions(df, name) : \A h \in Positions(df, name) : j <= h)

dropna(c) == SelectSeq(c, LAMBDA v : ~IsNa(v))

isna_sum(c) == Len(c) - Len(dropna(c))

nunique(c) == Cardinality(Range(c) \ {NULL})

\* the number of duplicated rows that are repeats of the row before them
adjacent_repeats(df) ==
    Cardinality({i \in 2..Len(df.rows) : df.rows[i - 1] = df.rows[i]})

\* df.duplicated(): row i repeats an earlier row
duplicated(df, i) == \E h \in 1..(i - 1) : df.rows[h] = df.rows[i]

duplicated_sum(df) == Cardinality({i \in 1..Len(df.rows) : duplicated(df, i)})

\* pd.api.types.is_numeric_dtype: a column of numbers and NaN (int64 or
\* float64), or a column of booleans without NaN (dtype bool, which pandas
\* counts as numeric)
is_numeric_dtype(c) ==
    \/ \A i \in DOMAIN c : c[i].k \in {"null", "num", "inf"}
    \/ \A i \in DOMAIN c : c[i].k = "bool"

(***************************************************************************)
(* Type inference: DataProcessor.detect_column_types.                      *)
(***************************************************************************)
ColumnTypes ==
    {"integer", "float", "categorical", "boolean", "text", "datetime", "unknown"}

\* str.lower() on the strings of the model
lower(s) ==
    CASE s = "Yes" -> "yes"
      [] s = "No" -> "no"
      [] s = "T" -> "t"
      [] OTHER -> s

bool_values == {"true", "false", "yes", "no", "y", "n", "1", "0", "t", "f"}

\* the strings pd.to_datetime parses
DateStrings == {"2024-01-05", "2024-02-01"}

\* x == int(x): int() of an infinity raises OverflowError
is_integral(v) == v.d = 1

to_datetime_ok(c) ==
    \A i \in DOMAIN c : IsNa(c[i]) \/ (c[i].k = "str" /\ c[i].n = 0 /\ c[i].s \in DateStrings)

lower_values(c) ==
    {IF v.k = "str" THEN [v EXCEPT !.s = lower(v.s)]
     ELSE IF v.k = "bool" THEN Str(IF v.n = 1 THEN "true" ELSE "false")
     ELSE v : v \in Range(c) \ {NULL}}

is_bool_set(vals) == \A v \in vals : v.k = "str" /\ v.n = 0 /\ v.s \in bool_values

\* unique_count / len(df) < 0.05
BelowRatio(unique_count, len_df) == unique_count * 100 < CategoricalRatioPct * len_df

\* the numeric branch, lines 84-95
numeric_type(c, len_df) ==
    IF \A v \in Range(dropna(c)) : is_integral(v)
    THEN IF nunique(c) <= CategoricalMaxUnique /\ BelowRatio(nunique(c), len_df)
         THEN "categorical"
         ELSE "integer"
    ELSE "float"

\* the non-numeric branch with both cardinality tests required
object_type_both(c, len_df) ==
    IF to_datetime_ok(c) THEN "datetime"
    ELSE IF is_bool_set(lower_values(c)) THEN "boolean"
    ELSE IF nunique(c) <= CategoricalMaxUnique /\ BelowRatio(nunique(c), len_df)
         THEN "categorical"
         ELSE "text"

\* the non-numeric branch, lines 96-112
object_type(c, len_df) ==
    IF to_datetime_ok(c) THEN "datetime"
    ELSE IF is_bool_set(lower_values(c)) THEN "boolean"
    ELSE IF nunique(c) <= CategoricalMaxUnique \/ BelowRatio(nunique(c), len_df)
         THEN "categorical"
         ELSE "text"

\* the body of the loop for one column: its type, or "raise" when int(x)
\* raises OverflowError on an infinite value
column_type(c, len_df) ==
    IF \A i \in DOMAIN c : IsNa(c[i]) THEN "unknown"
    ELSE IF is_numeric_dtype(c)
         THEN IF \E v \in Range(c) : v.k = "inf" THEN "raise"
              ELSE numeric_type(c, len_df)
         ELSE object_type(c, len_df)

\* The loop over df.columns.  column_datatypes is a dict: here the sequence
\* of its items [col, type] in insertion order.  df[col] of a repeated name
\* is a DataFrame, and `if df[col].isna().all()` then raises ValueError.
\* The result is the dict as the loop leaves it, and whether it raised.
column_steps(df) ==
    [j \in 1..Len(df.cols) |->
        IF Cardinality(Positions(df, df.cols[j])) > 1 THEN "raise"
        ELSE column_type(ColumnAt(df, j), Len(df.rows))]

\* the number of iterations that complete, given the outcome of each
completed(step) ==
    IF \A j \in DOMAIN step : step[j] # "raise" THEN Len(step)
    ELSE (CHOOSE j \in DOMAIN step :
              step[j] = "raise" /\ \A h \in 1..(j - 1) : step[h] # "raise") - 1

loop_result(df, step, done) ==
    [types |-> [j \in 1..done |-> [col |-> df.cols[j], type |-> step[j]]],
     raised |-> done < Len(step)]

detect_column_types(df) == loop_result(df, column_steps(df), completed(column_steps(df)))

Keys(dict) == {dict[i].col : i \in DOMAIN dict}

\* dict.get(col, "unknown")
TypeOf(dict, col) ==
    IF col \in Keys(dict)
    THEN (CHOOSE e \in Range(dict) : e.col = col).type
    ELSE "unknown"

(***************************************************************************)
(* Series statistics (pandas / numpy).                                     *)
(***************************************************************************)
\* Series.quantile(p/4) of the non-null values data, by linear interpolation
\* between the two neighbouring order statistics a and b: a + (b - a) * t
\* for t < 1/2 and b - (b - a) * (1 - t) otherwise
lerp(a, b, r) ==
    IF 2 * r >= 4 THEN XSub(b, XScale(XSub(b, a), 4 - r, 4))
    ELSE XAdd(a, XScale(XSub(b, a), r, 4))

\* the p/4 quantile of the ascending sequence x
sorted_quantile(x, p) ==
    LET pos4 == p * (Len(x) - 1)
        lo == (pos4 \div 4) + 1
        hi == IF lo < Len(x) THEN lo + 1 ELSE lo
    IN  lerp(x[lo], x[hi], pos4 % 4)

quantile(data, p) == sorted_quantile(SortNums(data), p)

\* lower_bound = Q1 - 1.5 * IQR and upper_bound = Q3 + 1.5 * IQR
bounds_of(Q1, Q3) ==
    [lower_bound |-> XSub(Q1, XScale(XSub(Q3, Q1), 3, 2)),
     upper_bound |-> XAdd(Q3, XScale(XSub(Q3, Q1), 3, 2))]

iqr_bounds(data) == bounds_of(quantile(data, 1), quantile(data, 3))

\* (v < lower_bound) | (v > upper_bound)
outlier_mask(v, lower_bound, upper_bound) == XLt(v, lower_bound) \/ XLt(upper_bound, v)

\* Series.mean(): the sum of the non-null values over their count
mean(data) == IF data = <<>> THEN NULL ELSE XScale(SumSeq(data), 1, Len(data))

\* Series.median(): the middle value, or the mean of the two middle values
sorted_median(x) ==
    IF x = <<>> THEN NULL
    ELSE IF Len(x) % 2 = 1 THEN x[(Len(x) \div 2) + 1]
    ELSE XScale(XAdd(x[Len(x) \div 2], x[(Len(x) \div 2) + 1]), 1, 2)

median(data) == sorted_median(SortNums(data))

series_min(data) == IF data = <<>> THEN NULL ELSE SortNums(data)[1]

series_max(data) == IF data = <<>> THEN NULL ELSE SortNums(data)[Len(data)]

\* the order of Python strings on the strings of the model
StrRank(s) ==
    CASE s = "2024-01-05" -> 1
      [] s = "2024-02-01" -> 2
      [] s = "No" -> 3
      [] s = "T" -> 4
      [] s = "Yes" -> 5
      [] s = "no" -> 6
      [] s = "t" -> 7
      [] s = "w" -> 8
      [] s = "x" -> 9
      [] s = "yes" -> 10
      [] OTHER -> 11

\* a < b on the values of one column
ValueLt(a, b) ==
    IF a.k = "str" /\ b.k = "str"
    THEN StrRank(a.s) < StrRank(b.s) \/ (StrRank(a.s) = StrRank(b.s) /\ a.n < b.n)
    ELSE XLt(a, b)

CountOf(c, v) == Cardinality({i \in DOMAIN c : c[i] = v})

\* Series.mode(): the most frequent non-null values (ascending); here the
\* set of them, and mode()[0], the least
mode_set(c) ==
    {v \in Range(c) \ {NULL} : \A w \in Range(c) \ {NULL} : CountOf(c, w) <= CountOf(c, v)}

mode0(c) == CHOOSE v \in mode_set(c) : \A w \in mode_set(c) : ~ValueLt(w, v)

\* the indices of c selected by the outlier mask for the given bounds
outliers(c, bounds) ==
    {i \in DOMAIN c : outlier_mask(c[i], bounds.lower_bound, bounds.upper_bound)}

\* DataProcessor._has_outliers
_has_outliers(series) ==
    IF Len(dropna(series)) < MinOutlierValues THEN FALSE
    ELSE outliers(dropna(series), iqr_bounds(dropna(series))) # {}

(***************************************************************************)
(* The profiler: DataProcessor.profile_data.  Optional keys of a column    *)
(* profile are sequences of length 0 or 1.  memory_usage, std and          *)
(* top_values are not modelled.                                            *)
(***************************************************************************)
\* isna().sum() / len(df) * 100; 0 / 0 is NaN
missing_percentage(c) == IF Len(c) = 0 THEN NULL ELSE Num(isna_sum(c) * 100, Len(c))

col_profile(df, j, column_datatypes) ==
    LET c == ColumnAt(df, j)
        col_type == TypeOf(column_datatypes, df.cols[j])
        data == dropna(c)
    IN  [col |-> df.cols[j],
         type |-> col_type,
         missing_count |-> isna_sum(c),
         missing_percentage |-> missing_percentage(c),
         unique_values |-> nunique(c),
         numeric |->
             IF col_type \in {"integer", "float"} /\ data # <<>>
             THEN <<[min |-> series_min(data), max |-> series_max(data),
                     mean |-> mean(data), median |-> median(data),
                     has_outliers |-> _has_outliers(c)]>>
             ELSE <<>>,
         most_common |->
             IF col_type \in {"categorical", "text", "boolean"} /\ mode_set(c) # {}
             THEN <<mode0(c)>>
             ELSE <<>>,
         dates |->
             IF col_type = "datetime" /\ data # <<>>
             THEN <<[min_date |-> CHOOSE v \in Range(data) :
                                      \A w \in Range(data) : ~ValueLt(w, v),
                     max_date |-> CHOOSE v \in Range(data) :
                                      \A w \in Range(data) : ~ValueLt(v, w)]>>
             ELSE <<>>]

EmptyProfile ==
    [set |-> FALSE, row_count |-> 0, column_count |-> 0, missing_values |-> <<>>,
     duplicate_rows |-> 0, column_types |-> <<>>, columns |-> <<>>]

profile_data(df, column_datatypes) ==
    [set |-> TRUE,
     row_count |-> Len(df.rows),
     column_count |-> Len(df.cols),
     missing_values |-> [j \in 1..Len(df.cols) |-> isna_sum(ColumnAt(df, j))],
     duplicate_rows |-> duplicated_sum(df),
     column_types |-> column_datatypes,
     columns |-> [j \in 1..Len(df.cols) |-> col_profile(df, j, column_datatypes)]]

(***************************************************************************)
(* Loading: DataProcessor.load_data.  An uploaded file is a record         *)
(* [bytes, utf8, sep, header, rows]: whether it has any byte, whether it   *)
(* decodes as UTF-8, the delimiter its lines are written with ("none": no  *)
(* delimiter parses it), its header names and its data rows.  A column     *)
(* name is a sequence of characters.                                       *)
(***************************************************************************)
\* pd.read_csv(uploaded_file, sep, encoding): "ok" or the exception raised.
\* Latin-1 and ISO-8859-1 decode any byte sequence; with a delimiter other
\* than its own the lines of the file have unequal numbers of fields.
read_csv(file, encoding, sep) ==
    IF ~file.bytes THEN "EmptyDataError"
    ELSE IF encoding = "utf-8" /\ ~file.utf8 THEN "UnicodeDecodeError"
    ELSE IF sep # file.sep THEN "ParserError"
    ELSE "ok"

\* the chain of attempts of lines 23-38
read_attempts(file) ==
    LET first == read_csv(file, "utf-8", ",")
    IN  IF first = "UnicodeDecodeError"
        THEN IF read_csv(file, "latin1", ",") = "ok" THEN "ok"
             ELSE read_csv(file, "ISO-8859-1", ",")
        ELSE IF first = "ParserError"
        THEN IF read_csv(file, "utf-8", ";") = "ok" THEN "ok"
             ELSE read_csv(file, "utf-8", "\t")
        ELSE first

RECURSIVE lstrip(_)
lstrip(name) == IF name # <<>> /\ Head(name) = " " THEN lstrip(Tail(name)) ELSE name

RECURSIVE rstrip(_)
rstrip(name) ==
    IF name # <<>> /\ name[Len(name)] = " "
    THEN rstrip(SubSeq(name, 1, Len(name) - 1))
    ELSE name

lower_char(ch) ==
    CASE ch = "A" -> "a"
      [] ch = "B" -> "b"
      [] ch = "C" -> "c"
      [] OTHER -> ch

\* str.strip().str.replace(' ', '_').str.lower() on one name
clean_name(name) ==
    LET stripped == rstrip(lstrip(name))
    IN  [i \in 1..Len(stripped) |->
            lower_char(IF stripped[i] = " " THEN "_" ELSE stripped[i])]

clean_column_names(df) ==
    Frame([j \in 1..Len(df.cols) |-> clean_name(df.cols[j])], df.rows)

\* df.empty: no row or no column
df_empty(df) == Len(df.rows) = 0 \/ Len(df.cols) = 0

\* The processor is the record of its five fields.
NewProcessor ==
    [original_df |-> None, processed_df |-> None, column_datatypes |-> <<>>,
     data_profile |-> EmptyProfile, cleaning_steps |-> <<>>]

\* load_data on processor self: the processor afterwards, the value
\* returned (a frame or None) and the message given to st.error ("" if none)
\* lines 50-61 for the frame df, given the result of the inference on it
store_data(self, df, detected) ==
    IF detected.raised
    THEN [self |-> [self EXCEPT !.original_df = df, !.processed_df = df,
                                !.column_datatypes = detected.types],
          ret |-> None,
          error |-> "detect_column_types raised"]
    ELSE [self |-> [self EXCEPT
                       !.original_df = df,
                       !.processed_df = df,
                       !.column_datatypes = detected.types,
                       !.data_profile = profile_data(df, detected.types),
                       !.cleaning_steps =
                           Append(self.cleaning_steps,
                                  [step |-> "Data Loaded",
                                   shape |-> <<Len(df.rows), Len(df.cols)>>,
                                   details |-> <<>>])],
          ret |-> df,
          error |-> ""]

\* lines 47-61 for the frame df as read
load_frame(self, df) == store_data(self, df, detect_column_types(df))

load_data(self, file) ==
    IF read_attempts(file) # "ok"
    THEN [self |-> self, ret |-> None, error |-> read_attempts(file)]
    ELSE IF df_empty(Frame(file.header, file.rows))
    THEN [self |-> self, ret |-> None, error |-> "CSV file is empty"]
    ELSE load_frame(self, clean_column_names(Frame(file.header, file.rows)))

(***************************************************************************)
(* Cleaning: DataProcessor.clean_data.  A configuration is a record        *)
(* [remove_duplicates, handle_missing, missing_threshold, remove_outliers] *)
(* with missing_threshold in percent.  fillna(..., inplace=True) on        *)
(* df[col] is taken to write through to df, as it does in pandas 1 and 2.  *)
(***************************************************************************)
\* the rows of df at the indices keep, in order
SelectRows(df, keep) ==
    LET F[i \in 0..Len(df.rows)] ==
            IF i = 0 THEN <<>>
            ELSE IF i \in keep THEN Append(F[i - 1], df.rows[i]) ELSE F[i - 1]
    IN  Frame(df.cols, F[Len(df.rows)])

\* the columns of df at the positions keep, in order
SelectCols(df, keep) ==
    LET P[j \in 0..Len(df.cols)] ==
            IF j = 0 THEN <<>>
            ELSE IF j \in keep THEN Append(P[j - 1], j) ELSE P[j - 1]
        idx == P[Len(df.cols)]
    IN  Frame([k \in 1..Len(idx) |-> df.cols[idx[k]]],
              [i \in 1..Len(df.rows) |-> [k \in 1..Len(idx) |-> df.rows[i][idx[k]]]])

\* a deduplication that compares each row with the row before it only
drop_adjacent_duplicates(df) ==
    SelectRows(df, {i \in 1..Len(df.rows) : i = 1 \/ df.rows[i] # df.rows[i - 1]})

\* df.drop_duplicates(): the first occurrence of every row
drop_duplicates(df) == SelectRows(df, {i \in 1..Len(df.rows) : ~duplicated(df, i)})

\* step 1, lines 205-212
step_duplicates(df, cfg) ==
    IF cfg.remove_duplicates /\ duplicated_sum(df) > 0
    THEN [df |-> drop_duplicates(df),
          steps |-> <<[step |-> "duplicates", count |-> duplicated_sum(df)]>>]
    ELSE [df |-> df, steps |-> <<>>]

\* df[col].isnull().sum() / len(df) > missing_threshold
cols_to_drop(df, missing_threshold) ==
    {j \in 1..Len(df.cols) :
        isna_sum(ColumnAt(df, j)) * 100 > missing_threshold * Len(df.rows)}

\* df.dropna(): the rows without a null
dropna_rows(df) ==
    SelectRows(df, {i \in 1..Len(df.rows) : \A j \in 1..Len(df.cols) : ~IsNa(df.rows[i][j])})

\* fill_mean, lines 235-240: every column of a numeric dtype
fill_mean(df) ==
    LET means == [j \in 1..Len(df.cols) |->
                     LET data == dropna(ColumnAt(df, j)) IN mean(data)]
    IN  Frame(df.cols,
              [i \in 1..Len(df.rows) |->
                  [j \in 1..Len(df.cols) |->
                      IF is_numeric_dtype(ColumnAt(df, j)) /\ IsNa(df.rows[i][j])
                      THEN means[j]
                      ELSE df.rows[i][j]]])

\* fill_mode, lines 245-249
fill_mode(df) ==
    LET modes == [j \in 1..Len(df.cols) |->
                     LET c == ColumnAt(df, j)
                     IN  IF mode_set(c) # {} THEN mode0(c) ELSE NULL]
    IN  Frame(df.cols,
              [i \in 1..Len(df.rows) |->
                  [j \in 1..Len(df.cols) |->
                      IF IsNa(df.rows[i][j]) THEN modes[j] ELSE df.rows[i][j]]])

\* step 2, lines 214-252
step_missing(df, cfg) ==
    CASE cfg.handle_missing = "drop_cols" ->
            IF cols_to_drop(df, cfg.missing_threshold) # {}
            THEN [df |-> SelectCols(df, (1..Len(df.cols)) \ cols_to_drop(df, cfg.missing_threshold)),
                  steps |-> <<[step |-> "drop_cols",
                               count |-> Cardinality(cols_to_drop(df, cfg.missing_threshold))]>>]
            ELSE [df |-> df, steps |-> <<>>]
      [] cfg.handle_missing = "drop_rows" ->
            IF Len(dropna_rows(df).rows) < Len(df.rows)
            THEN [df |-> dropna_rows(df),
                  steps |-> <<[step |-> "drop_rows",
                               count |-> Len(df.rows) - Len(dropna_rows(df).rows)]>>]
            ELSE [df |-> df, steps |-> <<>>]
      [] cfg.handle_missing = "fill_mean" ->
            [df |-> fill_mean(df), steps |-> <<[step |-> "fill_mean", count |-> 0]>>]
      [] cfg.handle_missing = "fill_mode" ->
            [df |-> fill_mode(df), steps |-> <<[step |-> "fill_mode", count |-> 0]>>]
      [] OTHER -> [df |-> df, steps |-> <<>>]

\* the columns the outlier step treats, lines 256-263: numeric by the types
\* of the last inference, still in df, with at least four non-null values
outlier_cols(df, column_datatypes) ==
    {j \in 1..Len(df.cols) :
        /\ df.cols[j] \in Keys(column_datatypes)
        /\ TypeOf(column_datatypes, df.cols[j]) \in {"integer", "float"}
        /\ Len(dropna(ColumnAt(df, j))) >= MinOutlierValues}

\* the cells of column j that the outlier step replaces
outlier_cells(df, j) == outliers(ColumnAt(df, j), iqr_bounds(dropna(ColumnAt(df, j))))

\* the cells <<i, j>> the outlier step replaces
outliers_replaced(df, column_datatypes) ==
    {<<i, j>> \in (1..Len(df.rows)) \X outlier_cols(df, column_datatypes) :
        i \in outlier_cells(df, j)}

\* an outlier step that drops the rows holding an outlier
drop_outlier_rows(df, replaced, medians) ==
    [df |-> SelectRows(df, {i \in 1..Len(df.rows) :
                               \A j \in 1..Len(df.cols) : <<i, j>> \notin replaced}),
     steps |-> IF replaced # {}
               THEN <<[step |-> "outliers", count |-> Cardinality(replaced)]>>
               ELSE <<>>]

\* df.loc[outlier_mask, col] = median_val for the cells replaced
replace_outliers(df, replaced, medians) ==
    [df |-> Frame(df.cols,
                  [i \in 1..Len(df.rows) |->
                      [j \in 1..Len(df.cols) |->
                          IF <<i, j>> \in replaced THEN medians[j] ELSE df.rows[i][j]]]),
     steps |-> IF replaced # {}
               THEN <<[step |-> "outliers", count |-> Cardinality(replaced)]>>
               ELSE <<>>]

\* step 3, lines 254-282
step_outliers(df, column_datatypes, cfg) ==
    IF ~cfg.remove_outliers THEN [df |-> df, steps |-> <<>>]
    ELSE replace_outliers(df, outliers_replaced(df, column_datatypes),
                          [j \in 1..Len(df.cols) |-> median(dropna(ColumnAt(df, j)))])

\* a step applied to the outcome of the steps before it
then_missing(s, cfg) ==
    [df |-> step_missing(s.df, cfg).df, steps |-> s.steps \o step_missing(s.df, cfg).steps]

then_outliers(s, column_datatypes, cfg) ==
    [df |-> step_outliers(s.df, column_datatypes, cfg).df,
     steps |-> s.steps \o step_outliers(s.df, column_datatypes, cfg).steps]

\* the three steps with the missing values handled before the duplicates
cleaned_missing_first(self, cfg) ==
    then_outliers(
        [df |-> step_duplicates(step_missing(self.processed_df, cfg).df, cfg).df,
         steps |-> step_missing(self.processed_df, cfg).steps
                       \o step_duplicates(step_missing(self.processed_df, cfg).df, cfg).steps],
        self.column_datatypes, cfg)

\* the working frame after the three steps, and the steps taken
cleaned(self, cfg) ==
    then_outliers(then_missing(step_duplicates(self.processed_df, cfg), cfg),
                  self.column_datatypes, cfg)

cleaning_report(before, after, steps) ==
    [original_rows |-> Len(before.rows),
     original_cols |-> Len(before.cols),
     steps_taken |-> steps,
     cleaned_rows |-> Len(after.rows),
     cleaned_cols |-> Len(after.cols),
     rows_removed |-> Len(before.rows) - Len(after.rows),
     cols_removed |-> Len(before.cols) - Len(after.cols)]

\* clean_data on processor self: the processor afterwards, whether the call
\* raised, and the report returned (a sequence of length 0 or 1: None, or
\* nothing when it raised).  Lines 285-289 assign processed_df, then rerun
\* the inference (which rebinds column_datatypes first) and the profiler.
\* lines 285-305 for the cleaned frame c.df, given the result of the
\* inference on it and the report
publish(self, c, detected, report) ==
    IF detected.raised
    THEN [self |-> [self EXCEPT !.processed_df = c.df,
                                !.column_datatypes = detected.types],
          raised |-> TRUE,
          report |-> <<>>]
    ELSE [self |-> [self EXCEPT
                       !.processed_df = c.df,
                       !.column_datatypes = detected.types,
                       !.data_profile = profile_data(c.df, detected.types),
                       !.cleaning_steps =
                           Append(self.cleaning_steps,
                                  [step |-> "Data Cleaned",
                                   shape |-> <<Len(c.df.rows), Len(c.df.cols)>>,
                                   details |-> <<report>>])],
          raised |-> FALSE,
          report |-> <<report>>]

\* lines 285-305 for the outcome c of the three steps
finish_clean(self, c) ==
    publish(self, c, detect_column_types(c.df),
            cleaning_report(self.processed_df, c.df, c.steps))

clean_data(self, cfg) ==
    IF self.processed_df.none
    THEN [self |-> self, raised |-> FALSE, report |-> <<>>]
    ELSE finish_clean(self, cleaned(self, cfg))

(***************************************************************************)
(* The upload handling of app.py.                                          *)
(***************************************************************************)
\* df.isnull().sum().sum()
null_cells(df) ==
    Cardinality({<<i, j>> \in (1..Len(df.rows)) \X (1..Len(df.cols)) : IsNa(df.rows[i][j])})

Config(remove_duplicates, handle_missing, missing_threshold, remove_outliers) ==
    [remove_duplicates |-> remove_duplicates, handle_missing |-> handle_missing,
     missing_threshold |-> missing_threshold, remove_outliers |-> remove_outliers]

\* app.py lines 237-242
AutoCleanConfig == Config(TRUE, "drop_cols", 70, FALSE)

\* dup_count > 0, or missing_pct > 5
needs_cleaning(df) ==
    duplicated_sum(df) > 0 \/ null_cells(df) * 100 > 5 * Len(df.rows) * Len(df.cols)

\* auto_clean_data(df, processor): the processor afterwards, the frame
\* returned, and was_cleaned
auto_cleaned(result) ==
    [self |-> result.self, cleaned_df |-> result.self.processed_df,
     raised |-> result.raised, was_cleaned |-> TRUE]

auto_clean_data(df, self) ==
    IF needs_cleaning(df)
    THEN auto_cleaned(clean_data(self, AutoCleanConfig))
    ELSE [self |-> self, cleaned_df |-> df, raised |-> FALSE, was_cleaned |-> FALSE]

(***************************************************************************)
(* Anomaly detection: AnomalyDetector.  The detector is the record of the  *)
(* fields its constructor sets; a report is the sequence of the items of   *)
(* the dict returned, in insertion order.                                  *)
(***************************************************************************)
\* [col for col, dtype in column_types.items() if dtype in types]
cols_of_types(column_types, types) ==
    LET picked == SelectSeq(column_types, LAMBDA e : e.type \in types)
    IN  [i \in 1..Len(picked) |-> picked[i].col]

NoAnalyzer ==
    [df |-> None, column_types |-> <<>>, numeric_cols |-> <<>>, categorical_cols |-> <<>>]

\* AnomalyDetector(df, column_types)
AnomalyDetector(df, column_types) ==
    [df |-> df,
     column_types |-> column_types,
     numeric_cols |-> cols_of_types(column_types, {"integer", "float"}),
     categorical_cols |-> cols_of_types(column_types, {"categorical", "boolean", "text"})]

\* a traversal of every numeric column
all_cols(cols) == cols

\* self.numeric_cols[:5]
first_cols(cols) ==
    SubSeq(cols, 1, IF Len(cols) < MaxOutlierCols THEN Len(cols) ELSE MaxOutlierCols)

\* the report entry of one column, given its non-null values, its bounds
\* and the indices selected by the outlier mask
outlier_entry(col, data, bounds, mask) ==
    [col |-> col,
     count |-> Cardinality(mask),
     percentage |-> Num(Cardinality(mask) * 100, Len(data)),
     lower_bound |-> bounds.lower_bound,
     upper_bound |-> bounds.upper_bound,
     min_outlier |-> series_min(SelectSeq(data, LAMBDA v :
                         outlier_mask(v, bounds.lower_bound, bounds.upper_bound))),
     max_outlier |-> series_max(SelectSeq(data, LAMBDA v :
                         outlier_mask(v, bounds.lower_bound, bounds.upper_bound)))]

\* the loop body for the column of non-null values data: the entries added
column_outliers(col, data) ==
    IF Len(data) = 0 \/ outliers(data, iqr_bounds(data)) = {} THEN <<>>
    ELSE <<outlier_entry(col, data, iqr_bounds(data), outliers(data, iqr_bounds(data)))>>

RECURSIVE outliers_of(_, _)
outliers_of(df, cols) ==
    IF cols = <<>> THEN <<>>
    ELSE column_outliers(Head(cols), dropna(ColumnNamed(df, Head(cols))))
             \o outliers_of(df, Tail(cols))

\* AnomalyDetector._detect_outliers
_detect_outliers(self) == outliers_of(self.df, first_cols(self.numeric_cols))

(***************************************************************************)
(* Trend analysis: TrendAnalyzer.  A standard deviation is held as its     *)
(* square, the sample variance, and a coefficient of variation as its sign *)
(* and the square of std / mean, so that comparisons with thresholds are   *)
(* exact.                                                                  *)
(***************************************************************************)
\* TrendAnalyzer(df, column_types)
TrendAnalyzer(df, column_types) ==
    [df |-> df,
     column_types |-> column_types,
     numeric_cols |-> cols_of_types(column_types, {"integer", "float"}),
     categorical_cols |-> cols_of_types(column_types, {"categorical", "boolean", "text"}),
     datetime_cols |-> cols_of_types(column_types, {"datetime"})]

RECURSIVE sum_products(_, _, _, _)
\* the sum over i of (x[i] - mx) * (y[i] - my)
sum_products(x, mx, y, my) ==
    IF x = <<>> THEN IntVal(0)
    ELSE XAdd(XMul(XSub(Head(x), mx), XSub(Head(y), my)),
              sum_products(Tail(x), mx, Tail(y), my))

\* Series.std() squared: NaN for fewer than two values
variance(data) ==
    IF Len(data) < 2 THEN NULL
    ELSE XScale(sum_products(data, mean(data), data, mean(data)), 1, Len(data) - 1)

\* a comparison of the two means without the 10% margins
direction_unscaled(first_half_mean, second_half_mean) ==
    IF XLt(first_half_mean, second_half_mean) THEN "increasing"
    ELSE IF XLt(second_half_mean, first_half_mean) THEN "decreasing"
    ELSE "stable"

\* TrendAnalyzer._detect_trend_direction, given the means of the two halves
direction_of(first_half_mean, second_half_mean) ==
    IF XLt(XScale(first_half_mean, 11, 10), second_half_mean) THEN "increasing"
    ELSE IF XLt(second_half_mean, XScale(first_half_mean, 9, 10)) THEN "decreasing"
    ELSE "stable"

_detect_trend_direction(series) ==
    IF Len(series) < 2 THEN "insufficient_data"
    ELSE direction_of(mean(SubSeq(series, 1, Len(series) \div 2)),
                      mean(SubSeq(series, (Len(series) \div 2) + 1, Len(series))))

\* (std / mean) * 100 if mean != 0 else 0.0
coefficient_of_variation(var, mean_val) ==
    IF Sign(mean_val) = 0 /\ mean_val.k = "num" THEN [sign |-> 0, square |-> IntVal(0)]
    ELSE [sign |-> Sign(var) * Sign(mean_val),
          square |-> XDiv(var, XMul(mean_val, mean_val))]

\* cv > t and cv < t for a percentage t >= 0; false for NaN
cv_above(cv, t) ==
    cv.square.k # "null" /\ cv.sign > 0 /\ XLt(Num(t * t, 10000), cv.square)

cv_below(cv, t) ==
    cv.square.k # "null" /\ (cv.sign <= 0 \/ XLt(cv.square, Num(t * t, 10000)))

\* the entry of one column in numeric_trends, given its non-null values
trend_info(col, data) ==
    IF Len(data) = 0 THEN <<>>
    ELSE <<[col |-> col,
            mean |-> mean(data),
            median |-> median(data),
            variance |-> variance(data),
            min |-> series_min(data),
            max |-> series_max(data),
            range |-> XSub(series_max(data), series_min(data)),
            trend_direction |-> _detect_trend_direction(data),
            coefficient_of_variation |->
                coefficient_of_variation(variance(data), mean(data))]>>

RECURSIVE trends_of(_, _)
trends_of(df, cols) ==
    IF cols = <<>> THEN <<>>
    ELSE trend_info(Head(cols), dropna(ColumnNamed(df, Head(cols))))
             \o trends_of(df, Tail(cols))

\* self.numeric_cols[:5]
first_numeric(cols) == SubSeq(cols, 1, IF Len(cols) < 5 THEN Len(cols) ELSE 5)

\* TrendAnalyzer._analyze_numeric_trends
_analyze_numeric_trends(self) == trends_of(self.df, first_numeric(self.numeric_cols))

\* value_counts().iloc[0]: the count of the most frequent non-null value of
\* a column that has one
most_common_count(c) == CountOf(c, mode0(c))

\* the first two categorical columns only
first_two_categorical(cols) == SubSeq(cols, 1, IF Len(cols) < 2 THEN Len(cols) ELSE 2)

\* self.categorical_cols[:3]
first_categorical(cols) == SubSeq(cols, 1, IF Len(cols) < 3 THEN Len(cols) ELSE 3)

\* TrendAnalyzer._analyze_categorical_distributions: concentration is
\* most_common_count / len(df) * 100
_analyze_categorical_distributions(self) ==
    [i \in 1..Len(first_categorical(self.categorical_cols)) |->
        [col |-> first_categorical(self.categorical_cols)[i],
         unique_count |-> nunique(ColumnNamed(self.df, first_categorical(self.categorical_cols)[i])),
         most_common |-> mode0(ColumnNamed(self.df, first_categorical(self.categorical_cols)[i])),
         most_common_count |->
             most_common_count(ColumnNamed(self.df, first_categorical(self.categorical_cols)[i])),
         concentration |->
             Num(most_common_count(ColumnNamed(self.df,
                     first_categorical(self.categorical_cols)[i])) * 100,
                 Len(self.df.rows))]]

\* the rows at which both columns have a value
complete_pairs(x, y) == {i \in DOMAIN x : ~IsNa(x[i]) /\ ~IsNa(y[i])}

\* the values of c at the indices keep, in order
at_indices(c, keep) == SelectSeq([i \in DOMAIN c |-> IF i \in keep THEN c[i] ELSE NULL],
                                 LAMBDA v : ~IsNa(v))

\* Pearson's r of the paired values x, y, as the sign of the covariance and
\* r squared; NaN for fewer than two pairs or a constant column
pearson(x, y) ==
    IF Len(x) < 2
          \/ Sign(sum_products(x, mean(x), x, mean(x))) = 0
          \/ Sign(sum_products(y, mean(y), y, mean(y))) = 0
    THEN [sign |-> 0, square |-> NULL]
    ELSE [sign |-> Sign(sum_products(x, mean(x), y, mean(y))),
          square |-> XMul(XDiv(sum_products(x, mean(x), y, mean(y)),
                               sum_products(x, mean(x), x, mean(x))),
                          XDiv(sum_products(x, mean(x), y, mean(y)),
                               sum_products(y, mean(y), y, mean(y))))]

\* corr_matrix.iloc[i, j] of the columns named a and b
corr_value(df, a, b) ==
    pearson(at_indices(ColumnNamed(df, a),
                       complete_pairs(ColumnNamed(df, a), ColumnNamed(df, b))),
            at_indices(ColumnNamed(df, b),
                       complete_pairs(ColumnNamed(df, a), ColumnNamed(df, b))))

\* abs(corr_value) > 0.7
is_strong(r) == r.square.k # "null" /\ XLt(Num(49, 100), r.square)

correlation_entry(a, b, r) ==
    IF is_strong(r)
    THEN <<[pair |-> <<a, b>>, coefficient |-> r,
            strength |-> IF r.sign > 0 THEN "strong positive" ELSE "strong negative"]>>
    ELSE <<>>

RECURSIVE correlations_from(_, _, _, _)
\* the double loop of lines 108-121, from the pair (i, j) on
correlations_from(df, cols, i, j) ==
    IF i >= Len(cols) THEN <<>>
    ELSE IF j > Len(cols) THEN correlations_from(df, cols, i + 1, i + 2)
    ELSE correlation_entry(cols[i], cols[j], corr_value(df, cols[i], cols[j]))
             \o correlations_from(df, cols, i, j + 1)

\* TrendAnalyzer._analyze_correlations
_analyze_correlations(self) ==
    IF Len(self.numeric_cols) < 2 THEN <<>>
    ELSE correlations_from(self.df, self.numeric_cols, 1, 2)

(***************************************************************************)
(* Business actions: BusinessInsightGenerator.  An action is held as its   *)
(* Category and Priority, written without their leading emoji, and the     *)
(* column or pair of columns its Action text names.                        *)
(***************************************************************************)
action(category, priority, subject) ==
    [Category |-> category, Priority |-> priority, subject |-> subject]

RECURSIVE Flatten(_)
\* the concatenation of a sequence of sequences
Flatten(qs) == IF qs = <<>> THEN <<>> ELSE Head(qs) \o Flatten(Tail(qs))

\* (df.isnull().sum() / total_rows) * 100 of one column
missing_pct(c, total_rows) ==
    Num(Cardinality({i \in DOMAIN c : IsNa(c[i])}) * 100, total_rows)

\* the missing-data rule with the thresholds themselves counted as above them
missing_action_inclusive(col, pct) ==
    IF ~XLt(pct, IntVal(30))
    THEN <<action("Data Quality Crisis", "Critical Priority", col)>>
    ELSE IF ~XLt(pct, IntVal(10))
    THEN <<action("Data Quality Issue", "High Priority", col)>>
    ELSE <<>>

\* 1. missing data
missing_action(col, pct) ==
    IF XLt(IntVal(30), pct)
    THEN <<action("Data Quality Crisis", "Critical Priority", col)>>
    ELSE IF XLt(IntVal(10), pct)
    THEN <<action("Data Quality Issue", "High Priority", col)>>
    ELSE <<>>

missing_actions(df) ==
    Flatten([j \in 1..Len(df.cols) |->
                missing_action(df.cols[j], missing_pct(ColumnAt(df, j), Len(df.rows)))])

\* 2. variability
variability_actions(numeric_trends) ==
    Flatten([i \in 1..Len(numeric_trends) |->
                IF cv_above(numeric_trends[i].coefficient_of_variation, 100)
                THEN <<action("High Risk Alert", "Critical Priority", numeric_trends[i].col)>>
                ELSE <<>>])

\* 3. declining trends
declining_actions(numeric_trends) ==
    Flatten([i \in 1..Len(numeric_trends) |->
                IF numeric_trends[i].trend_direction = "decreasing"
                THEN <<action("Performance Alert", "Critical Priority", numeric_trends[i].col)>>
                ELSE <<>>])

\* 4. growing trends
growing_actions(numeric_trends) ==
    Flatten([i \in 1..Len(numeric_trends) |->
                IF numeric_trends[i].trend_direction = "increasing"
                THEN <<action("Growth Opportunity", "Strategic Opportunity",
                              numeric_trends[i].col)>>
                ELSE <<>>])

\* 5. stable metrics
stable_actions(numeric_trends) ==
    Flatten([i \in 1..Len(numeric_trends) |->
                IF numeric_trends[i].trend_direction = "stable"
                   /\ cv_below(numeric_trends[i].coefficient_of_variation, 10)
                THEN <<action("Planning Asset", "Strategic Opportunity",
                              numeric_trends[i].col)>>
                ELSE <<>>])

\* 6. concentration
concentration_action(col, concentration) ==
    IF XLt(IntVal(70), concentration)
    THEN <<action("Concentration Risk", "High Priority", col)>>
    ELSE IF XLt(concentration, IntVal(20))
    THEN <<action("Balanced Portfolio", "Strategic Opportunity", col)>>
    ELSE <<>>

concentration_actions(cat_distributions) ==
    Flatten([i \in 1..Len(cat_distributions) |->
                concentration_action(cat_distributions[i].col,
                                     cat_distributions[i].concentration)])

\* 7. correlations
correlation_actions(correlations) ==
    Flatten([i \in 1..Len(correlations) |->
                IF correlations[i].strength = "strong positive"
                THEN <<action("Strategic Insight", "Strategic Opportunity",
                              correlations[i].pair)>>
                ELSE <<>>])

\* df.isnull().sum().sum()
missing_cells(df) ==
    Cardinality({ij \in (1..Len(df.rows)) \X (1..Len(df.cols)) : IsNa(df.rows[ij[1]][ij[2]])})

\* ((total_cells - missing_cells) / total_cells) * 100
\*     - (duplicate_rows / total_rows) * 10
quality_score(df) ==
    IF Len(df.rows) * Len(df.cols) = 0 THEN NULL
    ELSE XSub(Num((Len(df.rows) * Len(df.cols) - missing_cells(df)) * 100,
                  Len(df.rows) * Len(df.cols)),
              Num(duplicated_sum(df) * 10, Len(df.rows)))

\* 8. governance
governance_actions(score) ==
    IF XLt(score, IntVal(80))
    THEN <<action("Data Governance Crisis", "Critical Priority", <<>>)>>
    ELSE IF score.k # "null" /\ ~XLt(score, IntVal(90))
    THEN <<action("Data Excellence", "Strategic Opportunity", <<>>)>>
    ELSE <<>>

\* the list of actions as appended, before the sort
appended_actions(self) ==
    missing_actions(self.df)
        \o variability_actions(_analyze_numeric_trends(self))
        \o declining_actions(_analyze_numeric_trends(self))
        \o growing_actions(_analyze_numeric_trends(self))
        \o stable_actions(_analyze_numeric_trends(self))
        \o concentration_actions(_analyze_categorical_distributions(self))
        \o correlation_actions(_analyze_correlations(self))
        \o governance_actions(quality_score(self.df))

\* priority_order.get(x["Priority"], 3)
priority_order(priority) ==
    CASE priority = "Critical Priority" -> 0
      [] priority = "High Priority" -> 1
      [] priority = "Strategic Opportunity" -> 2
      [] OTHER -> 3

RECURSIVE insert_before_later(_, _)
\* x put into the sorted list q in front of the first action of a later tier
insert_before_later(x, q) ==
    IF q = <<>> THEN <<x>>
    ELSE IF priority_order(x.Priority) < priority_order(Head(q).Priority) THEN <<x>> \o q
    ELSE <<Head(q)>> \o insert_before_later(x, Tail(q))

RECURSIVE insert_before_equal(_, _)
\* x put into the sorted list q in front of the first action of its own or a
\* later tier
insert_before_equal(x, q) ==
    IF q = <<>> THEN <<x>>
    ELSE IF priority_order(x.Priority) <= priority_order(Head(q).Priority) THEN <<x>> \o q
    ELSE <<Head(q)>> \o insert_before_equal(x, Tail(q))

RECURSIVE unstable_sort(_)
\* a sort by priority_order that does not keep equal keys in order
unstable_sort(actions) ==
    IF actions = <<>> THEN <<>>
    ELSE insert_before_equal(actions[Len(actions)],
                             unstable_sort(SubSeq(actions, 1, Len(actions) - 1)))

RECURSIVE sort_by_priority(_)
\* actions.sort(key=...): list.sort is stable
sort_by_priority(actions) ==
    IF actions = <<>> THEN <<>>
    ELSE insert_before_later(actions[Len(actions)],
                             sort_by_priority(SubSeq(actions, 1, Len(actions) - 1)))

\* BusinessInsightGenerator.generate_business_actions
generate_business_actions(self) == sort_by_priority(appended_actions(self))

(***************************************************************************)
(* The executive summary and the top-3 view of BusinessInsightGenerator.   *)
(* round() is taken on the exact value, ties to even.                      *)
(***************************************************************************)
\* the integer nearest to n / d for n >= 0, ties to even
nearest(n, d) ==
    IF 2 * (n % d) > d \/ (2 * (n % d) = d /\ (n \div d) % 2 = 1)
    THEN (n \div d) + 1
    ELSE n \div d

\* round(x, digits), with scale = 10 ** digits
round_scaled(x, scale) ==
    IF x.k # "num" THEN x
    ELSE IF x.n < 0 THEN Num(-nearest((-x.n) * scale, x.d), scale)
    ELSE Num(nearest(x.n * scale, x.d), scale)

\* the share of null cells, in percent
null_share(total_cells, nulls) ==
    IF total_cells = 0 THEN NULL ELSE Num(nulls * 100, total_cells)

\* ((total_cells - missing_cells) / total_cells) * 100; NaN without cells
completeness_of(total_cells, nulls) ==
    IF total_cells = 0 THEN NULL ELSE Num((total_cells - nulls) * 100, total_cells)

\* ((len(df) - duplicate_rows) / len(df)) * 100
uniqueness_of(len_df, duplicate_rows) ==
    IF len_df = 0 THEN NULL ELSE Num((len_df - duplicate_rows) * 100, len_df)

\* the grade of an overall score; every comparison with NaN is false
grade_of(overall_score) ==
    IF overall_score.k = "null" THEN "Poor"
    ELSE IF ~XLt(overall_score, IntVal(95)) THEN "Excellent"
    ELSE IF ~XLt(overall_score, IntVal(85)) THEN "Very Good"
    ELSE IF ~XLt(overall_score, IntVal(75)) THEN "Good"
    ELSE IF ~XLt(overall_score, IntVal(60)) THEN "Fair"
    ELSE "Poor"

\* the dictionary returned for the two component scores
quality_of(completeness, uniqueness) ==
    [score |-> round_scaled(XAdd(XScale(completeness, 6, 10), XScale(uniqueness, 4, 10)), 10),
     grade |-> grade_of(XAdd(XScale(completeness, 6, 10), XScale(uniqueness, 4, 10))),
     completeness |-> round_scaled(completeness, 10),
     uniqueness |-> round_scaled(uniqueness, 10)]

\* BusinessInsightGenerator._calculate_quality_score
_calculate_quality_score(df) ==
    quality_of(completeness_of(Len(df.rows) * Len(df.cols), missing_cells(df)),
               uniqueness_of(Len(df.rows), duplicated_sum(df)))

\* BusinessInsightGenerator._identify_key_metrics
_identify_key_metrics(numeric_trends) ==
    [i \in 1..(IF Len(numeric_trends) < 3 THEN Len(numeric_trends) ELSE 3) |->
        [name |-> numeric_trends[i].col,
         average |-> round_scaled(numeric_trends[i].mean, 100),
         trend |-> numeric_trends[i].trend_direction,
         variability |-> IF cv_above(numeric_trends[i].coefficient_of_variation, 50)
                         THEN "High" ELSE "Low",
         range |-> <<numeric_trends[i].min, numeric_trends[i].max>>]]

\* the number of entries of a sequence that satisfy Test
CountIf(q, Test(_)) == Len(SelectSeq(q, Test))

alert(kind, count) == IF count > 0 THEN <<[kind |-> kind, count |-> count]>> ELSE <<>>

\* BusinessInsightGenerator._identify_alerts; the empty list stands for the
\* single line "No urgent issues detected"
_identify_alerts(numeric_trends, df) ==
    alert("decline", CountIf(numeric_trends, LAMBDA info : info.trend_direction = "decreasing"))
    \o alert("volatile",
             CountIf(numeric_trends, LAMBDA info : cv_above(info.coefficient_of_variation, 100)))
    \o alert("missing",
             Cardinality({j \in 1..Len(df.cols) :
                 10 * isna_sum(ColumnAt(df, j)) > 3 * Len(df.rows)}))
    \o alert("duplicates", IF 100 * duplicated_sum(df) > 5 * Len(df.rows) THEN 1 ELSE 0)

\* BusinessInsightGenerator._identify_opportunities; the empty list stands
\* for the single line "Continue monitoring"
_identify_opportunities(numeric_trends, cat_distributions) ==
    alert("growing", CountIf(numeric_trends, LAMBDA info : info.trend_direction = "increasing"))
    \o alert("stable",
             CountIf(numeric_trends,
                     LAMBDA info : info.trend_direction = "stable"
                                   /\ cv_below(info.coefficient_of_variation, 10)))
    \o alert("balanced",
             CountIf(cat_distributions, LAMBDA info : XLt(info.concentration, IntVal(30))))

\* BusinessInsightGenerator.generate_executive_summary
generate_executive_summary(self) ==
    [dataset_size |-> <<Len(self.df.rows), Len(self.df.cols)>>,
     data_quality |-> _calculate_quality_score(self.df),
     key_metrics |-> _identify_key_metrics(_analyze_numeric_trends(self)),
     alerts |-> _identify_alerts(_analyze_numeric_trends(self), self.df),
     opportunities |-> _identify_opportunities(_analyze_numeric_trends(self),
                                               _analyze_categorical_distributions(self))]

\* a[:n]
take(q, n) == SubSeq(q, 1, IF Len(q) < n THEN Len(q) ELSE n)

\* the top-3 view without the strategic actions
top_without_backfill(actions) ==
    take(SelectSeq(actions,
                   LAMBDA a : a.Priority \in {"Critical Priority", "High Priority"}), 3)

\* lines 326-331, for the list of actions generated
top_3_of(actions) ==
    top_without_backfill(actions)
        \o take(SelectSeq(actions, LAMBDA a : a.Priority = "Strategic Opportunity"),
                3 - Len(top_without_backfill(actions)))

\* BusinessInsightGenerator.generate_top_3_insights
generate_top_3_insights(self) == top_3_of(generate_business_actions(self))

(***************************************************************************)
(* Anomaly detection: the detectors beside _detect_outliers.  A key that   *)
(* the code leaves out of a dictionary is held as an empty sequence.  The  *)
(* products len * 0.3, len * 0.7 and len * 0.8 are exact for the lengths   *)
(* of the model.                                                           *)
(***************************************************************************)
\* missing_info[col] for the column at position j
missing_entry(df, j) ==
    IF isna_sum(ColumnAt(df, j)) > 0
    THEN <<[col |-> df.cols[j],
            count |-> isna_sum(ColumnAt(df, j)),
            percentage |-> Num(isna_sum(ColumnAt(df, j)) * 100, Len(df.rows))]>>
    ELSE <<>>

\* (df.isnull().sum(axis=1) > len(df.columns) * 0.3).sum()
problematic_rows(df) ==
    Cardinality({i \in 1..Len(df.rows) :
        10 * Cardinality({j \in 1..Len(df.cols) : IsNa(df.rows[i][j])}) > 3 * Len(df.cols)})

\* AnomalyDetector._detect_missing_patterns
_detect_missing_patterns(self) ==
    [by_column |-> Flatten([j \in 1..Len(self.df.cols) |-> missing_entry(self.df, j)]),
     problematic_rows |-> problematic_rows(self.df),
     total_missing_cells |-> missing_cells(self.df)]

\* (duplicate_count / len(df)) * 100; NaN for a dataset without rows
duplicate_percentage(duplicate_count, len_df) ==
    IF len_df = 0 THEN NULL ELSE Num(duplicate_count * 100, len_df)

\* AnomalyDetector._detect_duplicates
_detect_duplicates(self) ==
    [count |-> duplicated_sum(self.df),
     percentage |-> duplicate_percentage(duplicated_sum(self.df), Len(self.df.rows))]

\* the column names are lower-case letters: keyword in col.lower()
contains(name, keyword) ==
    \E i \in 0..(Len(name) - Len(keyword)) : SubSeq(name, i + 1, i + Len(keyword)) = keyword

Keywords ==
    {<<"p", "r", "i", "c", "e">>, <<"a", "m", "o", "u", "n", "t">>,
     <<"q", "u", "a", "n", "t", "i", "t", "y">>, <<"a", "g", "e">>,
     <<"c", "o", "u", "n", "t">>}

\* (data == 0).sum() of the non-null values
zero_count(data) == Cardinality({i \in DOMAIN data : data[i] = IntVal(0)})

\* (data < 0).sum()
negative_count(data) == Cardinality({i \in DOMAIN data : XLt(data[i], IntVal(0))})

\* unusual[col] for one numeric column, given its non-null values
unusual_entry(col, data) ==
    IF Len(data) = 0 THEN <<>>
    ELSE IF zero_count(data) * 100 > 30 * Len(data)
            \/ ((\E k \in Keywords : contains(col, k)) /\ negative_count(data) > 0)
    THEN <<[col |-> col,
            excessive_zeros |->
                IF zero_count(data) * 100 > 30 * Len(data)
                THEN <<Num(zero_count(data) * 100, Len(data))>> ELSE <<>>,
            unexpected_negatives |->
                IF (\E k \in Keywords : contains(col, k)) /\ negative_count(data) > 0
                THEN <<negative_count(data)>> ELSE <<>>]>>
    ELSE <<>>

\* AnomalyDetector._detect_unusual_distributions
_detect_unusual_distributions(self) ==
    Flatten([i \in 1..Len(first_cols(self.numeric_cols)) |->
                unusual_entry(first_cols(self.numeric_cols)[i],
                              dropna(ColumnNamed(self.df, first_cols(self.numeric_cols)[i])))])

\* [col for col in self.df.columns if self.df[col].nunique() == 1]
constant_columns(df) ==
    Flatten([j \in 1..Len(df.cols) |->
                IF nunique(ColumnAt(df, j)) = 1 THEN <<df.cols[j]>> ELSE <<>>])

\* the categorical columns with nunique() > len(df) * 0.8
high_cardinality(self) ==
    SelectSeq(self.categorical_cols,
              LAMBDA col : 10 * nunique(ColumnNamed(self.df, col)) > 8 * Len(self.df.rows))

\* the columns without any value
wholly_missing(df) ==
    Flatten([j \in 1..Len(df.cols) |->
                IF isna_sum(ColumnAt(df, j)) = Len(df.rows)
                THEN <<df.cols[j]>> ELSE <<>>])

\* [col for col in self.df.columns
\*      if self.df[col].isnull().sum() > len(self.df) * 0.7]
mostly_missing(df) ==
    Flatten([j \in 1..Len(df.cols) |->
                IF 10 * isna_sum(ColumnAt(df, j)) > 7 * Len(df.rows)
                THEN <<df.cols[j]>> ELSE <<>>])

\* AnomalyDetector._detect_data_quality_issues
_detect_data_quality_issues(self) ==
    [constant_columns |-> constant_columns(self.df),
     high_cardinality |-> high_cardinality(self),
     mostly_missing |-> mostly_missing(self.df)]

\* AnomalyDetector.detect_all_anomalies
detect_all_anomalies(self) ==
    [outliers |-> _detect_outliers(self),
     missing_patterns |-> _detect_missing_patterns(self),
     duplicates |-> _detect_duplicates(self),
     unusual_distributions |-> _detect_unusual_distributions(self),
     data_quality_issues |-> _detect_data_quality_issues(self)]

\* total_outliers / len(df) * 100 subtracted from 100, not below 0
accuracy_of(total_outliers, len_df) ==
    IF len_df = 0 THEN NULL
    ELSE IF total_outliers > len_df THEN IntVal(0)
    ELSE Num((len_df - total_outliers) * 100, len_df)

RECURSIVE total_count(_)
\* sum(info['count'] for info in outlier_info.values())
total_count(outlier_info) ==
    IF outlier_info = <<>> THEN 0 ELSE Head(outlier_info).count + total_count(Tail(outlier_info))

\* completeness_score * 0.4 + uniqueness_score * 0.3 + accuracy_score * 0.3
overall_of(completeness_score, uniqueness_score, accuracy_score) ==
    XAdd(XAdd(XScale(completeness_score, 4, 10), XScale(uniqueness_score, 3, 10)),
         XScale(accuracy_score, 3, 10))

\* the scores of the gauge, given the three reports it is computed from
quality_scores(df, missing_info, dup_info, outlier_info) ==
    [completeness_score |->
         completeness_of(Len(df.rows) * Len(df.cols), missing_info.total_missing_cells),
     uniqueness_score |-> uniqueness_of(Len(df.rows), dup_info.count),
     accuracy_score |-> accuracy_of(total_count(outlier_info), Len(df.rows)),
     overall_score |->
         overall_of(completeness_of(Len(df.rows) * Len(df.cols),
                                    missing_info.total_missing_cells),
                    uniqueness_of(Len(df.rows), dup_info.count),
                    accuracy_of(total_count(outlier_info), Len(df.rows)))]

\* AnomalyDetector.visualize_data_quality_score: the scores it shows
visualize_data_quality_score(self) ==
    quality_scores(self.df, _detect_missing_patterns(self), _detect_duplicates(self),
                   _detect_outliers(self))

(***************************************************************************)
(* The report writer: AIReportGenerator.  The outcome of the call to the   *)
(* text-generation service is a record [kind, text]: kind names the        *)
(* exception raised by fetch(...) or response.json(), or the shape of the  *)
(* JSON value received; whatever is found at data['content'][0]['text'] is *)
(* the generated report.                                                   *)
(***************************************************************************)
\* the first datetime column with its earliest and latest value
_analyze_time_series(self) ==
    IF self.datetime_cols = <<>> \/ dropna(ColumnNamed(self.df, self.datetime_cols[1])) = <<>>
    THEN <<>>
    ELSE <<[col |-> self.datetime_cols[1],
            start_date |-> CHOOSE v \in Range(dropna(ColumnNamed(self.df, self.datetime_cols[1]))) :
                \A w \in Range(dropna(ColumnNamed(self.df, self.datetime_cols[1]))) :
                    ~ValueLt(w, v),
            end_date |-> CHOOSE v \in Range(dropna(ColumnNamed(self.df, self.datetime_cols[1]))) :
                \A w \in Range(dropna(ColumnNamed(self.df, self.datetime_cols[1]))) :
                    ~ValueLt(v, w)]>>

\* TrendAnalyzer._get_summary_statistics
_get_summary_statistics(self) ==
    [total_rows |-> Len(self.df.rows),
     total_columns |-> Len(self.df.cols),
     numeric_columns |-> Len(self.numeric_cols),
     categorical_columns |-> Len(self.categorical_cols),
     datetime_columns |-> Len(self.datetime_cols),
     missing_data_pct |->
         IF Len(self.df.rows) * Len(self.df.cols) = 0 THEN NULL
         ELSE Num(missing_cells(self.df) * 100, Len(self.df.rows) * Len(self.df.cols))]

\* TrendAnalyzer.analyze_trends
analyze_trends(self) ==
    [numeric_trends |-> _analyze_numeric_trends(self),
     categorical_distributions |-> _analyze_categorical_distributions(self),
     correlations |-> _analyze_correlations(self),
     time_series |-> _analyze_time_series(self),
     summary_stats |-> _get_summary_statistics(self)]

\* AIReportGenerator(trend_analyzer, anomaly_detector, insight_generator); the
\* insight generator holds the trend analyzer and nothing else
AIReportGenerator(trend_analyzer, anomaly_detector) ==
    [trend_analyzer |-> trend_analyzer, anomaly_detector |-> anomaly_detector,
     df |-> trend_analyzer.df]

\* the values that _generate_fallback_report writes into its text
_generate_fallback_report(summary, actions) ==
    [dataset_size |-> summary.dataset_size,
     score |-> summary.data_quality.score,
     grade |-> summary.data_quality.grade,
     key_metrics |-> take(summary.key_metrics, 3),
     alerts |-> summary.alerts,
     actions |-> take(actions, 3)]

\* lines 20-27: the four analyses gathered before the call
gathered(self) ==
    [trends |-> analyze_trends(self.trend_analyzer),
     anomalies |-> detect_all_anomalies(self.anomaly_detector),
     summary |-> generate_executive_summary(self.trend_analyzer),
     actions |-> generate_business_actions(self.trend_analyzer)]

\* the exception that lines 31-49 raise on an outcome, "" if none: fetch is
\* not a name of the module unless the environment provides one; fetch or
\* response.json() raises; data is not a dictionary, has no 'content', an
\* empty 'content', or a first block without 'text'
raised_by(outcome) ==
    CASE outcome.kind \in {"NameError", "TimeoutError", "ConnectionError", "JSONDecodeError"}
             -> outcome.kind
      [] outcome.kind = "not_a_dict" -> "TypeError"
      [] outcome.kind = "no_content" -> "KeyError"
      [] outcome.kind = "empty_content" -> "IndexError"
      [] outcome.kind = "no_text" -> "KeyError"
      [] OTHER -> ""

\* a result that keeps the error and drops the fallback report
report_without_fallback(outcome, summary, actions) ==
    IF raised_by(outcome) = ""
    THEN [success |-> TRUE, report |-> <<outcome.text>>, error |-> <<>>,
          fallback_report |-> <<>>]
    ELSE [success |-> FALSE, report |-> <<>>, error |-> <<raised_by(outcome)>>,
          fallback_report |-> <<>>]

\* lines 29-62: the dictionary returned; a key it does not hold is an empty
\* sequence
report_result(outcome, summary, actions) ==
    IF raised_by(outcome) = ""
    THEN [success |-> TRUE, report |-> <<outcome.text>>, error |-> <<>>,
          fallback_report |-> <<>>]
    ELSE [success |-> FALSE, report |-> <<>>, error |-> <<raised_by(outcome)>>,
          fallback_report |-> <<_generate_fallback_report(summary, actions)>>]

(***************************************************************************)
(* Inputs of the processor life cycle.                                     *)
(***************************************************************************)
\* a magnitude at which sums leave the float range
Big == IntVal(FloatMax)

\* the data rows a table is made of: a string cell and a numeric cell
RowChoices ==
    {<<Str("yes"), IntVal(0)>>, <<NULL, IntVal(0)>>, <<Str("x"), NULL>>, <<NULL, Big>>}

\* a row whose numeric cell reads "inf"
InfRow == <<Str("No"), Inf(1)>>

Tables == UNION {[1..n -> RowChoices] : n \in 0..MaxRows}

\* the tables on which the header and the format of the file are varied
SmallTables == {<<>>} \cup {<<r>> : r \in RowChoices} \cup {<<r, InfRow>> : r \in RowChoices}

DefaultHeader == << <<"a">>, <<"b">> >>

Headers ==
    {DefaultHeader,
     << <<" ", "A", " ", "b">>, <<"B">> >>,
     << <<"A", " ">>, <<"a">> >>}

File(utf8, sep, header, rows) ==
    [bytes |-> TRUE, utf8 |-> utf8, sep |-> sep, header |-> header, rows |-> rows]

ZeroByteFile == [bytes |-> FALSE, utf8 |-> TRUE, sep |-> ",", header |-> <<>>, rows |-> <<>>]

\* tables long enough for the outlier test: four values and an extreme one
OutlierTables ==
    {<<r, r, r, r, <<NULL, Big>> >> : r \in {<<Str("yes"), IntVal(0)>>, <<NULL, IntVal(0)>>}}

Files ==
    {File(TRUE, ",", DefaultHeader, t) : t \in Tables \cup OutlierTables}
    \cup {File(u, sp, h, t) :
            u \in BOOLEAN, sp \in {",", ";", "\t", "none"}, h \in Headers, t \in SmallTables}
    \cup {ZeroByteFile}

\* the default threshold (0.5) with every strategy, and the outlier step
\* alone or after fill_mean
Configs ==
    {Config(dup, missing, 50, FALSE) :
        dup \in BOOLEAN,
        missing \in {"drop_cols", "drop_rows", "fill_mean", "fill_mode", "none"}}
    \cup {Config(FALSE, missing, 50, TRUE) : missing \in {"fill_mean", "none"}}

(***************************************************************************)
(* State.  processor is the DataProcessor most recently constructed,       *)
(* session the st.session_state of the app, last the outcome of the last   *)
(* call, analyzer the analysis object most recently constructed and       *)
(* findings the value its last method call returned.                         *)
(***************************************************************************)
VARIABLES processor, session, last, analyzer, findings

vars == <<processor, session, last, analyzer, findings>>

NoFindings == [op |-> "none", value |-> <<>>]

NoConfig == Config(FALSE, "none", 0, FALSE)

Call(op, cfg, raised, error, returned, report) ==
    [op |-> op, cfg |-> cfg, raised |-> raised, error |-> error,
     returned |-> returned, report |-> report]

NewSession ==
    [data_processor |-> FALSE, current_df |-> None, original_df |-> None,
     cleaning_performed |-> FALSE]

Init ==
    /\ processor = NewProcessor
    /\ session = NewSession
    /\ last = Call("init", NoConfig, FALSE, "", FALSE, <<>>)
    /\ analyzer = NoAnalyzer
    /\ findings = NoFindings

\* DataProcessor().load_data(file), called directly
LoadData(file) ==
    /\ last.op = "init"
    /\ \E loaded \in {load_data(NewProcessor, file)} :
           /\ processor' = loaded.self
           /\ last' = Call("load_data", NoConfig, FALSE, loaded.error, ~loaded.ret.none, <<>>)
    /\ UNCHANGED <<session, analyzer, findings>>

\* The upload handling, app.py lines 359-369: with df = None the statement
\* df.copy() raises AttributeError and the handler ends there.
Upload(file) ==
    /\ last.op \in {"init", "upload"}
    /\ ~session.data_processor
    /\ UNCHANGED <<analyzer, findings>>
    /\ \E loaded \in {load_data(NewProcessor, file)} :
           IF loaded.ret.none
           THEN /\ processor' = loaded.self
                /\ session' = session
                /\ last' = Call("upload", NoConfig, TRUE, loaded.error, FALSE, <<>>)
           ELSE \E auto \in {auto_clean_data(loaded.ret, loaded.self)} :
                    IF auto.raised
                    THEN /\ processor' = auto.self
                         /\ session' = [session EXCEPT !.original_df = loaded.ret]
                         /\ last' = Call("upload", NoConfig, TRUE, "", TRUE, <<>>)
                    ELSE /\ processor' = auto.self
                         /\ session' = [data_processor |-> TRUE,
                                        current_df |-> auto.cleaned_df,
                                        original_df |-> loaded.ret,
                                        cleaning_performed |-> auto.was_cleaned]
                         /\ last' = Call("upload", NoConfig, FALSE, "", TRUE, <<>>)

\* processor.clean_data(...) on a processor whose earlier calls succeeded
CleanData(cfg) ==
    /\ ~last.raised
    /\ last.error = ""
    /\ Len(processor.cleaning_steps) <= MaxCleans
    /\ \E result \in {clean_data(processor, cfg)} :
           /\ processor' = result.self
           /\ last' = Call("clean_data", cfg, result.raised, "", result.report # <<>>,
                           result.report)
    /\ UNCHANGED <<session, analyzer, findings>>

Next ==
    \/ \E file \in Files : LoadData(file)
    \/ \E file \in Files : Upload(file)
    \/ \E cfg \in Configs : CleanData(cfg)

Spec == Init /\ [][Next]_vars

(***************************************************************************)
(* Type inference alone: detect_column_types on a processor whose working  *)
(* dataset has columns long enough for the cardinality thresholds.  A      *)
(* column is given by the family of its values, the number k of leading    *)
(* cells holding the values 1..k of the family, what fills the other       *)
(* cells, and its length n.                                                *)
(***************************************************************************)
BoolToken(i) == <<"yes", "No", "T", "1">>[((i - 1) % 4) + 1]

DateToken(i) == IF i % 2 = 1 THEN "2024-01-05" ELSE "2024-02-01"

Value(family, i) ==
    CASE family = "int" -> IntVal(i)
      [] family = "half" -> Num(2 * i + 1, 2)
      [] family = "inf" -> IF i = 1 THEN Inf(1) ELSE Num(2 * i + 1, 2)
      [] family = "word" -> Word(i)
      [] family = "date" -> Str(DateToken(i))
      [] family = "datemixed" -> IF i = 1 THEN Word(1) ELSE Str(DateToken(i))
      [] family = "boolstr" -> Str(BoolToken(i))
      [] family = "boolmixed" -> IF i = 1 THEN Word(1) ELSE Str(BoolToken(i))
      [] OTHER -> Bool(i % 2 = 1)

Families ==
    {"int", "half", "inf", "word", "date", "datemixed", "boolstr", "boolmixed", "bool"}

TypeColumn(family, k, fill, n) ==
    [i \in 1..n |-> IF i <= k THEN Value(family, i)
                    ELSE IF fill = "null" THEN NULL
                    ELSE Value(family, 1)]

\* the lengths and the numbers of distinct values around the thresholds
TypeSizes == {2, 20, 21, 400, 401, 420, MaxTypeRows}

Distincts == {0, 1, 2, CategoricalMaxUnique, CategoricalMaxUnique + 1}

TypeColumns ==
    {TypeColumn(family, k, fill, n) :
        family \in Families, k \in Distincts, fill \in {"null", "repeat"},
        n \in {m \in TypeSizes : m <= MaxTypeRows}}

\* the columns put beside a column under test, of length n
OtherColumns(n) ==
    {TypeColumn("inf", 1, "repeat", n), TypeColumn("word", 1, "repeat", n),
     TypeColumn("int", 2, "null", n)}

OneColumn(name, c) == Frame(<<name>>, [i \in DOMAIN c |-> <<c[i]>>])

TwoColumns(name1, c1, name2, c2) ==
    Frame(<<name1, name2>>, [i \in DOMAIN c1 |-> <<c1[i], c2[i]>>])

\* self.detect_column_types() on a processor whose working dataset is df
run_detect(self, df) ==
    [self EXCEPT !.processed_df = df, !.column_datatypes = detect_column_types(df).types]

DetectCall(op, df) ==
    Call(op, NoConfig, detect_column_types(df).raised, "",
         ~detect_column_types(df).raised, <<>>)

\* detect_column_types on a dataset of the one column x
DetectColumnTypes(c) ==
    /\ last.op = "init"
    /\ processor' = run_detect(NewProcessor, OneColumn(<<"x">>, c))
    /\ last' = DetectCall("detect_column_types", OneColumn(<<"x">>, c))
    /\ UNCHANGED <<session, analyzer, findings>>

\* detect_column_types again on the unchanged dataset
DetectAgain ==
    /\ last.op = "detect_column_types"
    /\ processor' = run_detect(processor, processor.processed_df)
    /\ last' = DetectCall("detect_again", processor.processed_df)
    /\ UNCHANGED <<session, analyzer, findings>>

\* detect_column_types on a dataset with the same column x and another
\* column y before or after it
DetectBeside(before) ==
    /\ last.op = "detect_column_types"
    /\ \E y \in OtherColumns(Len(processor.processed_df.rows)) :
       \E df \in {IF before
                  THEN TwoColumns(<<"y">>, y, <<"x">>, ColumnAt(processor.processed_df, 1))
                  ELSE TwoColumns(<<"x">>, ColumnAt(processor.processed_df, 1), <<"y">>, y)} :
           /\ processor' = run_detect(NewProcessor, df)
           /\ last' = DetectCall("detect_beside", df)
    /\ UNCHANGED <<session, analyzer, findings>>

NextTypes ==
    \/ \E c \in TypeColumns : DetectColumnTypes(c)
    \/ DetectAgain
    \/ \E before \in BOOLEAN : DetectBeside(before)

SpecTypes == Init /\ [][NextTypes]_vars

(***************************************************************************)
(* The outlier report alone: _detect_outliers on a detector built from a   *)
(* dataset and its inferred types.  Columns have n rows: four equal values *)
(* and extreme ones, evenly spread values, values with a null, strings.    *)
(***************************************************************************)
OutlierShapes == {"high", "both", "spread", "gap", "word"}

OutlierColumn(shape, n) ==
    [i \in 1..n |->
        CASE shape = "high" -> IF i = n THEN IntVal(9) ELSE IntVal(0)
          [] shape = "both" -> IF i = n THEN IntVal(9)
                               ELSE IF i = 1 THEN Num(-17, 2) ELSE IntVal(0)
          [] shape = "spread" -> IntVal(i)
          [] shape = "gap" -> IF i = 1 THEN NULL ELSE IF i = 2 THEN Big ELSE IntVal(1)
          [] OTHER -> Word(1)]

\* the names of the columns of a wide dataset
WideNames == << <<"a">>, <<"b">>, <<"c">>, <<"d">>, <<"e">>, <<"f">>, <<"g">> >>

\* datasets of one column of every shape and length, and datasets of seven
\* columns of the greatest length
OutlierFrames ==
    {OneColumn(<<"a">>, OutlierColumn(shape, n)) :
        shape \in OutlierShapes, n \in 1..MaxOutlierRows}
    \cup {Frame(WideNames,
                [i \in 1..MaxOutlierRows |->
                    [j \in 1..Len(WideNames) |-> OutlierColumn(shapes[j], MaxOutlierRows)[i]]]) :
            shapes \in [1..Len(WideNames) -> {"high", "spread", "word"}]}

(***************************************************************************)
(* Inputs and steps of the insight generator.                              *)
(***************************************************************************)
NumericShapes == {"up", "down", "flat", "spike", "holes", "hole"}

CategoricalShapes == {"same", "diverse", "majority", "holes"}

NumericColumn(shape, n) ==
    [i \in 1..n |->
        CASE shape = "up" -> IntVal(i)
          [] shape = "down" -> IntVal(n + 1 - i)
          [] shape = "flat" -> IntVal(2)
          [] shape = "spike" -> IF i = 1 THEN IntVal(3) ELSE IntVal(0)
          [] shape = "holes" -> IF i <= 2 THEN NULL ELSE IntVal(2)
          [] OTHER -> IF i = 1 THEN NULL ELSE IntVal(i)]

CategoricalColumn(shape, n) ==
    [i \in 1..n |->
        CASE shape = "same" -> Word(1)
          [] shape = "diverse" -> Word(i)
          [] shape = "majority" -> IF i = n THEN Word(2) ELSE Word(1)
          [] OTHER -> IF i <= 2 THEN NULL ELSE Word(i)]

ActionSizes == {MaxActionRows - 2, MaxActionRows}

\* datasets of two numeric columns and a categorical one
ActionFrames ==
    {Frame(<< <<"a">>, <<"b">>, <<"c">> >>,
           [i \in 1..n |-> <<NumericColumn(x, n)[i], NumericColumn(y, n)[i],
                             CategoricalColumn(z, n)[i]>>]) :
        x \in NumericShapes, y \in NumericShapes, z \in CategoricalShapes, n \in ActionSizes}

\* BusinessInsightGenerator(TrendAnalyzer(df, processor.column_datatypes))
\*     .generate_business_actions()
GenerateBusinessActions(df) ==
    /\ findings.op = "none"
    /\ \E trend_analyzer \in {TrendAnalyzer(df, detect_column_types(df).types)} :
           /\ analyzer' = trend_analyzer
           /\ findings' = [op |-> "generate_business_actions",
                           value |-> generate_business_actions(trend_analyzer)]
    /\ UNCHANGED <<processor, session, last>>

NextActions == \E df \in ActionFrames : GenerateBusinessActions(df)

SpecActions == Init /\ [][NextActions]_vars

\* AnomalyDetector(df, column_datatypes)._detect_outliers()
DetectOutliers(df) ==
    /\ findings.op = "none"
    /\ \E detector \in {AnomalyDetector(df, detect_column_types(df).types)} :
           /\ analyzer' = detector
           /\ findings' = [op |-> "_detect_outliers", value |-> _detect_outliers(detector)]
    /\ UNCHANGED <<processor, session, last>>

NextOutliers == \E df \in OutlierFrames : DetectOutliers(df)

SpecOutliers == Init /\ [][NextOutliers]_vars

(***************************************************************************)
(* Analysis and reporting on a loaded dataset.  The pages of app.py and    *)
(* the report writer build their analysis objects from the dataset and the *)
(* column types that the processor holds after load_data.                  *)
(***************************************************************************)
NumericBases == {"rise", "fall", "level", "pairs", "alt", "swing"}

CategoricalBases == {"same", "diverse", "halves"}

\* a column of n cells: k null cells, then the cells of the base
ReportColumn(base, k, n) ==
    [i \in 1..n |->
        IF i <= k THEN NULL
        ELSE CASE base = "rise" -> IntVal(i)
               [] base = "fall" -> IntVal(n + 1 - i)
               [] base = "level" -> IntVal(2)
               [] base = "pairs" -> IntVal((i + 1) \div 2)
               [] base = "alt" -> IntVal(i % 2)
               [] base = "swing" -> IF i = n THEN IntVal(3) ELSE IntVal(0)
               [] base = "same" -> Word(1)
               [] base = "diverse" -> Word(i)
               [] OTHER -> Word((i + 1) \div 2)]

\* the numbers of null cells: none, 10%, 30%, 40%, 80% and all of ten rows
NullCounts == {0, 1, 3, 4, 8, ReportRows}

NumericReportColumns ==
    {ReportColumn(base, k, ReportRows) : base \in NumericBases, k \in NullCounts}

CategoricalReportColumns ==
    {ReportColumn(base, 0, ReportRows) : base \in CategoricalBases}
    \cup {ReportColumn("same", 3, ReportRows), ReportColumn("diverse", 8, ReportRows),
          ReportColumn("same", ReportRows, ReportRows)}

\* the dataset of the given columns, named a, b, ...
FrameOf(columns) ==
    Frame(SubSeq(WideNames, 1, Len(columns)),
          [i \in 1..ReportRows |-> [j \in 1..Len(columns) |-> columns[j][i]]])

\* datasets of a numeric and a categorical column, and datasets of a numeric
\* column followed by four categorical ones
ReportFrames ==
    {FrameOf(<<x, c>>) : x \in NumericReportColumns, c \in CategoricalReportColumns}
    \cup {FrameOf(<<ReportColumn("rise", 0, ReportRows)>>
                  \o [j \in 1..4 |-> ReportColumn(bases[j], 0, ReportRows)]) :
             bases \in [1..4 -> {"same", "diverse"}]}

\* what the service does with the request
Outcomes ==
    {[kind |-> kind, text |-> ""] :
        kind \in {"NameError", "TimeoutError", "ConnectionError", "JSONDecodeError",
                  "not_a_dict", "no_content", "empty_content", "no_text"}}
    \cup {[kind |-> "text", text |-> "report"]}

\* load_data for a file that reads as the dataset df
LoadFrame(df) ==
    /\ last.op = "init"
    /\ \E loaded \in {load_frame(NewProcessor, df)} :
           /\ processor' = loaded.self
           /\ last' = Call("load_data", NoConfig, FALSE, loaded.error, ~loaded.ret.none, <<>>)
    /\ UNCHANGED <<session, analyzer, findings>>

\* the dataset has been loaded and no page has been computed
Loaded == last.op = "load_data" /\ last.returned /\ findings.op = "none"

\* generate_executive_report up to its await (lines 20-31), for the report
\* writer that app.py lines 764-767 construct
StartExecutiveReport ==
    /\ Loaded
    /\ \E ai_report_gen \in
           {AIReportGenerator(
                TrendAnalyzer(processor.processed_df, processor.column_datatypes),
                AnomalyDetector(processor.processed_df, processor.column_datatypes))} :
           /\ analyzer' = ai_report_gen
           /\ findings' = [op |-> "generate_executive_report", awaiting |-> TRUE,
                           gathered |-> gathered(ai_report_gen),
                           outcome |-> <<>>, value |-> <<>>]
    /\ UNCHANGED <<processor, session, last>>

\* generate_executive_report from its await to its return (lines 31-62)
FinishExecutiveReport(outcome) ==
    /\ findings.op = "generate_executive_report"
    /\ findings.awaiting
    /\ findings' = [findings EXCEPT
                       !.awaiting = FALSE,
                       !.outcome = <<outcome>>,
                       !.value = <<report_result(outcome, findings.gathered.summary,
                                                 findings.gathered.actions)>>]
    /\ UNCHANGED <<processor, session, last, analyzer>>

\* the insights page, app.py lines 621-628
ShowInsights ==
    /\ Loaded
    /\ \E trend_analyzer \in
           {TrendAnalyzer(processor.processed_df, processor.column_datatypes)} :
           /\ analyzer' = trend_analyzer
           /\ findings' = [op |-> "insights",
                           summary |-> generate_executive_summary(trend_analyzer),
                           actions |-> generate_business_actions(trend_analyzer),
                           top_3 |-> generate_top_3_insights(trend_analyzer)]
    /\ UNCHANGED <<processor, session, last>>

\* the anomalies page, app.py lines 546-561
ShowAnomalies ==
    /\ Loaded
    /\ \E anomaly_detector \in
           {AnomalyDetector(processor.processed_df, processor.column_datatypes)} :
           /\ analyzer' = anomaly_detector
           /\ findings' = [op |-> "anomalies",
                           anomalies |-> detect_all_anomalies(anomaly_detector),
                           quality |-> visualize_data_quality_score(anomaly_detector)]
    /\ UNCHANGED <<processor, session, last>>

NextReport ==
    \/ \E df \in ReportFrames : LoadFrame(df)
    \/ StartExecutiveReport
    \/ \E outcome \in Outcomes : FinishExecutiveReport(outcome)
    \/ ShowInsights
    \/ ShowAnomalies

SpecReport == Init /\ [][NextReport]_vars

(***************************************************************************)
(* Trend analysis alone: _analyze_numeric_trends on an analyzer built from *)
(* a dataset of one column and the types inferred for it.                  *)
(***************************************************************************)
\* null, and integers that lie 10% and 15% from one another
TrendValues ==
    {NULL, IntVal(-20), IntVal(0), IntVal(18), IntVal(20), IntVal(22), IntVal(23)}

TrendFrames ==
    {OneColumn(<<"a">>, c) : c \in UNION {[1..n -> TrendValues] : n \in 1..MaxTrendRows}}

\* TrendAnalyzer(df, column_datatypes)._analyze_numeric_trends()
AnalyzeNumericTrends(df) ==
    /\ findings.op = "none"
    /\ \E trend_analyzer \in {TrendAnalyzer(df, detect_column_types(df).types)} :
           /\ analyzer' = trend_analyzer
           /\ findings' = [op |-> "_analyze_numeric_trends",
                           value |-> _analyze_numeric_trends(trend_analyzer)]
    /\ UNCHANGED <<processor, session, last>>

NextTrends == \E df \in TrendFrames : AnalyzeNumericTrends(df)

SpecTrends == Init /\ [][NextTrends]_vars

(***************************************************************************)
(* One cleaning of a loaded dataset: clean_data with every combination of  *)
(* its options on the dataset that load_data has stored.                   *)
(***************************************************************************)
\* the kinds of row: a string cell and a numeric cell
CleanRowKinds ==
    << <<Str("x"), IntVal(1)>>, <<NULL, IntVal(1)>>, <<Str("x"), NULL>>,
       <<Str("y"), IntVal(2)>>, <<Str("y"), IntVal(16)>> >>

\* how many rows of each kind a dataset has
CleanCounts ==
    {counts \in [DOMAIN CleanRowKinds -> 0..MaxCleanRows] :
        /\ counts[1] + counts[2] + counts[3] + counts[4] + counts[5] >= 1
        /\ counts[1] + counts[2] + counts[3] + counts[4] + counts[5] <= MaxCleanRows}

\* the datasets: the rows of the first kind, then those of the second, ...
CleanFrames ==
    {Frame(DefaultHeader,
           Flatten([k \in DOMAIN CleanRowKinds |->
                       [i \in 1..counts[k] |-> CleanRowKinds[k]]])) :
        counts \in CleanCounts}

\* every strategy with the default threshold (0.5), and drop_cols with 0.4
CleanConfigs ==
    {Config(dup, missing, 50, out) :
        dup \in BOOLEAN,
        missing \in {"drop_cols", "drop_rows", "fill_mean", "fill_mode", "none"},
        out \in BOOLEAN}
    \cup {Config(dup, "drop_cols", 40, out) : dup \in BOOLEAN, out \in BOOLEAN}

\* clean_data called once on the dataset just loaded
CleanLoaded(cfg) ==
    /\ last.op = "load_data"
    /\ CleanData(cfg)

NextClean ==
    \/ \E df \in CleanFrames : LoadFrame(df)
    \/ \E cfg \in CleanConfigs : CleanLoaded(cfg)

SpecClean == Init /\ [][NextClean]_vars

(***************************************************************************)
(* The analyses of one loaded dataset in any order.  The analysis objects  *)
(* hold references to the working dataset and to the column-type mapping   *)
(* of the processor, so each analysis reads them as the analyses before it *)
(* have left them.  findings holds the result of each analysis that has    *)
(* run, as a sequence of length 0 or 1.                                    *)
(***************************************************************************)
AnalysisFrames ==
    {FrameOf(<<ReportColumn(x, k, ReportRows), ReportColumn(c, 0, ReportRows)>>) :
        x \in NumericBases, k \in {0, 3}, c \in CategoricalBases}

\* an analysis that drops the incomplete rows of the dataset it reads
after_dropna(self) == [self EXCEPT !.processed_df = dropna_rows(self.processed_df)]

\* the processor after detect_all_anomalies, analyze_trends,
\* generate_business_actions or generate_executive_summary has read its
\* dataset and its column types: none of them assigns to either
after_analysis(self) == self

\* the processor after profile_data, lines 115-173
after_profile_data(self) ==
    [self EXCEPT !.data_profile = profile_data(self.processed_df, self.column_datatypes)]

NoAnalyses ==
    [op |-> "analyses", profile |-> <<>>, anomalies |-> <<>>, trends |-> <<>>,
     actions |-> <<>>, summary |-> <<>>]

\* the results of the analyses run since the load
Analyses == IF findings.op = "analyses" THEN findings ELSE NoAnalyses

Analysable == last.op = "load_data" /\ last.returned /\ findings.op \in {"none", "analyses"}

RunProfileData ==
    /\ Analysable
    /\ Analyses.profile = <<>>
    /\ processor' = after_profile_data(processor)
    /\ findings' = [Analyses EXCEPT
                       !.profile = <<profile_data(processor.processed_df,
                                                  processor.column_datatypes)>>]
    /\ UNCHANGED <<session, last, analyzer>>

RunDetectAllAnomalies ==
    /\ Analysable
    /\ Analyses.anomalies = <<>>
    /\ processor' = after_analysis(processor)
    /\ \E anomaly_detector \in
           {AnomalyDetector(processor.processed_df, processor.column_datatypes)} :
           /\ analyzer' = anomaly_detector
           /\ findings' = [Analyses EXCEPT
                              !.anomalies = <<detect_all_anomalies(anomaly_detector)>>]
    /\ UNCHANGED <<session, last>>

RunAnalyzeTrends ==
    /\ Analysable
    /\ Analyses.trends = <<>>
    /\ processor' = after_analysis(processor)
    /\ \E trend_analyzer \in
           {TrendAnalyzer(processor.processed_df, processor.column_datatypes)} :
           /\ analyzer' = trend_analyzer
           /\ findings' = [Analyses EXCEPT !.trends = <<analyze_trends(trend_analyzer)>>]
    /\ UNCHANGED <<session, last>>

RunGenerateBusinessActions ==
    /\ Analysable
    /\ Analyses.actions = <<>>
    /\ processor' = after_analysis(processor)
    /\ \E trend_analyzer \in
           {TrendAnalyzer(processor.processed_df, processor.column_datatypes)} :
           /\ analyzer' = trend_analyzer
           /\ findings' = [Analyses EXCEPT
                              !.actions = <<generate_business_actions(trend_analyzer)>>]
    /\ UNCHANGED <<session, last>>

RunGenerateExecutiveSummary ==
    /\ Analysable
    /\ Analyses.summary = <<>>
    /\ processor' = after_analysis(processor)
    /\ \E trend_analyzer \in
           {TrendAnalyzer(processor.processed_df, processor.column_datatypes)} :
           /\ analyzer' = trend_analyzer
           /\ findings' = [Analyses EXCEPT
                              !.summary = <<generate_executive_summary(trend_analyzer)>>]
    /\ UNCHANGED <<session, last>>

NextAnalyses ==
    \/ \E df \in AnalysisFrames : LoadFrame(df)
    \/ RunProfileData
    \/ RunDetectAllAnomalies
    \/ RunAnalyzeTrends
    \/ RunGenerateBusinessActions
    \/ RunGenerateExecutiveSummary

SpecAnalyses == Init /\ [][NextAnalyses]_vars

(***************************************************************************)
(* One cleaning of a dataset long enough for an integer column of two      *)
(* values to be typed categorical at its load (2 / 41 < 0.05).             *)
(***************************************************************************)
\* rows without the string, then complete rows with the number 0, then
\* complete rows with the number 1
RetypeFrame(incomplete, zeros, ones) ==
    Frame(DefaultHeader,
          [i \in 1..(incomplete + zeros + ones) |->
              IF i <= incomplete THEN <<NULL, IntVal(0)>>
              ELSE IF i <= incomplete + zeros THEN <<Str("x"), IntVal(0)>>
              ELSE <<Str("x"), IntVal(1)>>])

RetypeFrames ==
    {RetypeFrame(incomplete, 4 - ones, ones) :
        incomplete \in 0..(MaxRetypeRows - 4), ones \in {0, 1}}

RetypeConfigs ==
    {Config(dup, missing, 50, TRUE) : dup \in BOOLEAN, missing \in {"drop_rows", "none"}}

NextRetype ==
    \/ \E df \in RetypeFrames : LoadFrame(df)
    \/ \E cfg \in RetypeConfigs : CleanLoaded(cfg)

SpecRetype == Init /\ [][NextRetype]_vars

(***************************************************************************)
(* Trends and actions for one column of values of either sign.             *)
(***************************************************************************)
SteadyValues == {NULL, IntVal(-20), IntVal(0), IntVal(20)}

SteadyFrames ==
    {OneColumn(<<"a">>, c) : c \in UNION {[1..n -> SteadyValues] : n \in 1..MaxSteadyRows}}

NextSteady ==
    \/ \E df \in SteadyFrames : AnalyzeNumericTrends(df)
    \/ \E df \in SteadyFrames : GenerateBusinessActions(df)

SpecSteady == Init /\ [][NextSteady]_vars

(***************************************************************************)
(* The profile and the anomalies of one loaded dataset: columns of few     *)
(* values, among them neighbouring floats, and the wide datasets handed to *)
(* the anomaly detector.                                                   *)
(***************************************************************************)
FlagValues == {NULL, IntVal(0), IntVal(FloatExact), IntVal(FloatExact + 2)}

FlagFrames ==
    {OneColumn(<<"a">>, c) : c \in UNION {[1..n -> FlagValues] : n \in 1..MaxFlagRows}}
    \cup {df \in OutlierFrames : Len(df.cols) > 1}

NextFlags ==
    \/ \E df \in FlagFrames : LoadFrame(df)
    \/ RunProfileData
    \/ RunDetectAllAnomalies

SpecFlags == Init /\ [][NextFlags]_vars

(***************************************************************************)
(* Properties of the processor life cycle, checked under Spec.             *)
(***************************************************************************)
\* clean_data(remove_duplicates=True, handle_missing='none',
\* remove_outliers=False) with the default threshold
DupOnly == Config(TRUE, "none", 50, FALSE)

\* the columns of df as a set of names
ColumnSet(df) == Range(df.cols)

\* C2: when clean_data with remove_duplicates=True, no missing-value
\* strategy and remove_outliers=False has returned its report and is called
\* again with the same options, the second call finds no duplicate, returns
\* a report with rows_removed = 0 and no step taken, and leaves the working
\* dataset, the column types and the profile as the first call left them.
C2_DuplicateRemovalIdempotent ==
    [][(/\ last.op = "clean_data" /\ last.cfg = DupOnly /\ last.returned
        /\ last'.op = "clean_data" /\ last'.cfg = DupOnly)
       => (/\ duplicated_sum(processor.processed_df) = 0
           /\ last'.returned
           /\ last'.report[1].rows_removed = 0
           /\ last'.report[1].steps_taken = <<>>
           /\ processor'.processed_df = processor.processed_df
           /\ processor'.column_datatypes = processor.column_datatypes
           /\ processor'.data_profile = processor.data_profile)]_vars

\* a second duplicates-only call has returned, after a first call whose only
\* step removed duplicate rows
C2_Witness ==
    /\ last.op = "clean_data" /\ last.cfg = DupOnly /\ last.returned
    /\ Len(processor.cleaning_steps) = 3
    /\ processor.cleaning_steps[2].details[1].rows_removed > 0
    /\ Len(processor.cleaning_steps[2].details[1].steps_taken) = 1
    /\ processor.cleaning_steps[2].details[1].steps_taken[1].step = "duplicates"
    /\ last.report[1].rows_removed = 0

\* C3: a clean_data call that raises leaves the working dataset, the column
\* types and the profile as they were before the call; a call that returns
\* its report has replaced all three, and the types and the profile are
\* those of the new working dataset.
C3_CleaningAtomic ==
    [][last'.op = "clean_data"
       => IF last'.raised
          THEN /\ processor'.processed_df = processor.processed_df
               /\ processor'.column_datatypes = processor.column_datatypes
               /\ processor'.data_profile = processor.data_profile
          ELSE last'.returned
               => /\ processor'.column_datatypes
                         = detect_column_types(processor'.processed_df).types
                  /\ processor'.data_profile
                         = profile_data(processor'.processed_df,
                                        processor'.column_datatypes)]_vars

\* a clean_data call has raised after assigning the working dataset
C3_Raised ==
    /\ last.op = "clean_data" /\ last.raised
    /\ processor.data_profile.row_count = Len(processor.processed_df.rows)
    /\ Keys(processor.column_datatypes) # ColumnSet(processor.processed_df)

\* C4: when load_data returns no dataset it has reported an error, and the
\* processor is as constructed: original_df, processed_df, column_datatypes
\* and data_profile unset and no step logged.
C4_FailedLoadPublishesNothing ==
    (last.op = "load_data" /\ ~last.returned)
        => (last.error # "" /\ processor = NewProcessor)

\* a load that failed after storing the frames
C4_PartialLoad ==
    /\ last.op = "load_data" /\ ~last.returned
    /\ ~processor.processed_df.none

\* C5: when load_data returns no dataset to the upload handling, the
\* handling completes without raising and the session has no current
\* dataset and no processor, so that a later upload is processed.
C5_LoadFailureRecoverable ==
    (last.op = "upload" /\ ~last.returned)
        => (/\ ~last.raised
            /\ session.current_df.none
            /\ ~session.data_processor)

\* an upload whose load failed
C5_FailedUpload == last.op = "upload" /\ ~last.returned /\ last.error # ""

\* the profile's per-column entries as a set of names
ProfileColumns(profile) == {profile.columns[j].col : j \in DOMAIN profile.columns}

\* C6: after a successful load and any clean_data calls, every column of the
\* working dataset has one type of the enumeration (unknown when it is all
\* null), column_datatypes and the profile's columns have exactly the
\* working dataset's columns as keys, and the profile's row_count,
\* column_count and duplicate_rows are those of the working dataset.
C6_TypesAndProfileMatchDataset ==
    (processor.cleaning_steps # <<>>)
        => (/\ \A j \in 1..Len(processor.processed_df.cols) :
                   /\ Cardinality({i \in DOMAIN processor.column_datatypes :
                          processor.column_datatypes[i].col
                              = processor.processed_df.cols[j]}) = 1
                   /\ TypeOf(processor.column_datatypes, processor.processed_df.cols[j])
                          \in ColumnTypes
                   /\ (\A i \in 1..Len(processor.processed_df.rows) :
                           IsNa(processor.processed_df.rows[i][j]))
                          => TypeOf(processor.column_datatypes,
                                    processor.processed_df.cols[j]) = "unknown"
            /\ Keys(processor.column_datatypes) = ColumnSet(processor.processed_df)
            /\ ProfileColumns(processor.data_profile) = ColumnSet(processor.processed_df)
            /\ processor.data_profile.row_count = Len(processor.processed_df.rows)
            /\ processor.data_profile.column_count = Len(processor.processed_df.cols)
            /\ processor.data_profile.duplicate_rows
                   = duplicated_sum(processor.processed_df))

\* the same, for the states in which no call has raised
C6_WhenNothingRaised == ~last.raised => C6_TypesAndProfileMatchDataset

(***************************************************************************)
(* Properties of type inference, checked under SpecTypes.                  *)
(***************************************************************************)
\* the type column_datatypes holds for col, "none" when it has no such key
TypeGiven(dict, col) == IF col \in Keys(dict) THEN TypeOf(dict, col) ELSE "none"

AllNull(c) == \A i \in DOMAIN c : IsNa(c[i])

\* the number of distinct non-null values
Distinct(c) == Cardinality({c[i] : i \in {h \in DOMAIN c : ~IsNa(c[h])}})

\* a value that equals its integer truncation
Integral(v) == v.k = "bool" \/ (v.k = "num" /\ v.d = 1)

\* distinct-count / row-count < 0.05
RatioBelowFivePercent(c) == 20 * Distinct(c) < Len(c)

\* the type C7 states for a numeric column
C7_Expected(c) ==
    IF \A i \in DOMAIN c : IsNa(c[i]) \/ Integral(c[i])
    THEN IF Distinct(c) <= 20 /\ RatioBelowFivePercent(c) THEN "categorical"
         ELSE "integer"
    ELSE "float"

\* C7: a column of a numeric dtype that is not all null is typed categorical
\* when all its non-null values are integral, it has at most 20 distinct
\* values and distinct-count / row-count < 0.05; integer when all are
\* integral otherwise; float when some non-null value is not integral.
C7_NumericColumnRule ==
    (last.op = "detect_column_types")
        => \A j \in 1..Len(processor.processed_df.cols) :
               (/\ is_numeric_dtype(ColumnAt(processor.processed_df, j))
                /\ ~AllNull(ColumnAt(processor.processed_df, j)))
                   => TypeGiven(processor.column_datatypes, processor.processed_df.cols[j])
                          = C7_Expected(ColumnAt(processor.processed_df, j))

\* detection raised on a numeric column holding an infinite value beside a
\* non-integral one
C7_InfiniteValue ==
    /\ last.op = "detect_column_types" /\ last.raised
    /\ \E i \in 1..Len(processor.processed_df.rows) :
           processor.processed_df.rows[i][1].k = "inf"
    /\ \E i \in 1..Len(processor.processed_df.rows) :
           processor.processed_df.rows[i][1].k = "num"
               /\ processor.processed_df.rows[i][1].d = 2

\* the rule of C7 on the numeric columns all of whose values are finite
C7_FiniteColumns ==
    (last.op = "detect_column_types")
        => \A j \in 1..Len(processor.processed_df.cols) :
               (/\ is_numeric_dtype(ColumnAt(processor.processed_df, j))
                /\ ~AllNull(ColumnAt(processor.processed_df, j))
                /\ \A i \in 1..Len(processor.processed_df.rows) :
                       processor.processed_df.rows[i][j].k # "inf")
                   => TypeGiven(processor.column_datatypes, processor.processed_df.cols[j])
                          = C7_Expected(ColumnAt(processor.processed_df, j))

\* the words that make a column boolean
BoolWords == {"true", "false", "yes", "no", "y", "n", "1", "0", "t", "f"}

\* the lower-cased string of a non-null value of a non-numeric column
Lowered(v) ==
    IF v.k = "bool" THEN (IF v.n = 1 THEN "true" ELSE "false")
    ELSE IF v.k = "str" /\ v.n = 0
    THEN (CASE v.s = "Yes" -> "yes" [] v.s = "No" -> "no" [] v.s = "T" -> "t" [] OTHER -> v.s)
    ELSE "other"

ParsesAsDate(v) == v.k = "str" /\ v.n = 0 /\ v.s \in {"2024-01-05", "2024-02-01"}

\* the type C8 states for a non-numeric column
C8_Expected(c) ==
    IF \A i \in DOMAIN c : IsNa(c[i]) \/ ParsesAsDate(c[i]) THEN "datetime"
    ELSE IF \A i \in DOMAIN c : IsNa(c[i]) \/ Lowered(c[i]) \in BoolWords THEN "boolean"
    ELSE IF Distinct(c) <= 20 \/ RatioBelowFivePercent(c) THEN "categorical"
    ELSE "text"

C9_TypeDependsOnColumnOnly ==
    [][\A name \in ColumnSet(processor.processed_df) \cap ColumnSet(processor'.processed_df) :
           (ColumnNamed(processor'.processed_df, name)
                = ColumnNamed(processor.processed_df, name))
               => TypeGiven(processor'.column_datatypes, name)
                      = TypeGiven(processor.column_datatypes, name)]_vars

\* a typed column x has no type in the dataset with the column y before it
C9_TypeLost ==
    /\ last.op = "detect_beside" /\ last.raised
    /\ processor.processed_df.cols = << <<"y">>, <<"x">> >>
    /\ ~is_numeric_dtype(ColumnAt(processor.processed_df, 2))
    /\ processor.column_datatypes = <<>>

\* the same, for the steps in which no run of the inference raises
C9_WhenNothingRaises ==
    [][(~last.raised /\ ~last'.raised)
       => \A name \in ColumnSet(processor.processed_df)
                          \cap ColumnSet(processor'.processed_df) :
              (ColumnNamed(processor'.processed_df, name)
                   = ColumnNamed(processor.processed_df, name))
                  => TypeGiven(processor'.column_datatypes, name)
                         = TypeGiven(processor.column_datatypes, name)]_vars

(***************************************************************************)
(* Properties of the outlier report, checked under SpecOutliers.           *)
(***************************************************************************)
\* the non-null values of the detector's column col
NonNull(col) == dropna(ColumnNamed(analyzer.df, col))

\* Q1 - 1.5 * IQR and Q3 + 1.5 * IQR over the values data
LowerFence(data) ==
    XSub(quantile(data, 1), XScale(XSub(quantile(data, 3), quantile(data, 1)), 3, 2))

UpperFence(data) ==
    XAdd(quantile(data, 3), XScale(XSub(quantile(data, 3), quantile(data, 1)), 3, 2))

\* strictly outside [low, high]
Outside(v, low, high) == XLt(v, low) \/ XLt(high, v)

\* the names of the first five numeric columns
FirstFiveNumeric ==
    {analyzer.numeric_cols[i] : i \in {h \in DOMAIN analyzer.numeric_cols : h <= 5}}

\* C10: every entry of the outlier report is for one of the first five
\* numeric columns, holds lower_bound = Q1 - 1.5 * IQR and upper_bound =
\* Q3 + 1.5 * IQR over the column's non-null values, a count of at least 1
\* equal to the number of non-null values strictly outside the bounds, and
\* a min_outlier and a max_outlier strictly outside the bounds; a column
\* with no value outside its bounds has no entry.
C10_OutlierReport ==
    (findings.op = "_detect_outliers")
        => /\ \A i \in DOMAIN findings.value :
                  /\ findings.value[i].col \in FirstFiveNumeric
                  /\ findings.value[i].lower_bound = LowerFence(NonNull(findings.value[i].col))
                  /\ findings.value[i].upper_bound = UpperFence(NonNull(findings.value[i].col))
                  /\ findings.value[i].count >= 1
                  /\ findings.value[i].count
                         = Cardinality({h \in DOMAIN NonNull(findings.value[i].col) :
                               Outside(NonNull(findings.value[i].col)[h],
                                       findings.value[i].lower_bound,
                                       findings.value[i].upper_bound)})
                  /\ Outside(findings.value[i].min_outlier, findings.value[i].lower_bound,
                             findings.value[i].upper_bound)
                  /\ Outside(findings.value[i].max_outlier, findings.value[i].lower_bound,
                             findings.value[i].upper_bound)
           /\ \A col \in ColumnSet(analyzer.df) :
                  (\A h \in DOMAIN NonNull(col) :
                       ~Outside(NonNull(col)[h], LowerFence(NonNull(col)),
                                UpperFence(NonNull(col))))
                      => \A i \in DOMAIN findings.value : findings.value[i].col # col

\* a report with five entries for a dataset whose sixth numeric column has a
\* value outside its bounds too, and without an entry for it
C10_SixthColumnLeftOut ==
    /\ findings.op = "_detect_outliers"
    /\ Len(findings.value) = 5
    /\ Len(analyzer.numeric_cols) >= 6
    /\ \E h \in DOMAIN NonNull(analyzer.numeric_cols[6]) :
           Outside(NonNull(analyzer.numeric_cols[6])[h],
                   LowerFence(NonNull(analyzer.numeric_cols[6])),
                   UpperFence(NonNull(analyzer.numeric_cols[6])))

(***************************************************************************)
(* C1.                                                                     *)
(***************************************************************************)
\* the tier of an action: Critical, High, Strategic, any other
Tier(a) ==
    CASE a.Priority = "Critical Priority" -> 0
      [] a.Priority = "High Priority" -> 1
      [] a.Priority = "Strategic Opportunity" -> 2
      [] OTHER -> 3

\* the rule family that generates the actions of a category
Family(a) ==
    CASE a.Category \in {"Data Quality Crisis", "Data Quality Issue"} -> 1
      [] a.Category = "High Risk Alert" -> 2
      [] a.Category = "Performance Alert" -> 3
      [] a.Category = "Growth Opportunity" -> 4
      [] a.Category = "Planning Asset" -> 5
      [] a.Category \in {"Concentration Risk", "Balanced Portfolio"} -> 6
      [] a.Category = "Strategic Insight" -> 7
      [] OTHER -> 8

OfTier(actions, t) == SelectSeq(actions, LAMBDA a : Tier(a) = t)

\* C1: the list generate_business_actions returns is the list of actions in
\* generation order stably sorted by tier: no High or Strategic action
\* precedes a Critical action, no Strategic action precedes a High action,
\* and the actions of one tier are those generated, in the order in which
\* the eight rule families generated them.
C1_ActionsStablySortedByTier ==
    findings.op = "generate_business_actions" =>
        /\ \A i, j \in DOMAIN findings.value :
               i < j => /\ Tier(findings.value[i]) <= Tier(findings.value[j])
                        /\ Tier(findings.value[i]) = Tier(findings.value[j])
                               => Family(findings.value[i]) <= Family(findings.value[j])
        /\ \A t \in 0..3 :
               OfTier(findings.value, t) = OfTier(appended_actions(analyzer), t)

\* a returned list that holds actions of all three tiers, two actions of
\* one tier from different rule families, and that the sort has reordered
C1_SortReorders ==
    /\ findings.op = "generate_business_actions"
    /\ findings.value # appended_actions(analyzer)
    /\ \A t \in 0..2 : OfTier(findings.value, t) # <<>>
    /\ \E i, j \in DOMAIN findings.value :
           /\ i < j
           /\ Tier(findings.value[i]) = Tier(findings.value[j])
           /\ Family(findings.value[i]) < Family(findings.value[j])

(***************************************************************************)
(* Properties of analysis and reporting, checked under SpecReport.         *)
(***************************************************************************)
\* the number of rows of df that repeat an earlier row: every row beyond
\* the first of its kind
Repeats(df) == Len(df.rows) - Cardinality({df.rows[i] : i \in 1..Len(df.rows)})

\* the states in which detect_all_anomalies has reported on the dataset
AnomaliesReported == findings.op = "anomalies"

\* C11: for a dataset with at least one row, the duplicate count that
\* _detect_duplicates reports, and the duplicate_rows of the profile, is the
\* number of rows that repeat an earlier row, lies between 0 and
\* row_count - 1, and the percentage is duplicate_count / row_count * 100.
C11_DuplicateCount ==
    (AnomaliesReported /\ Len(processor.processed_df.rows) > 0) =>
        /\ findings.anomalies.duplicates.count = Repeats(processor.processed_df)
        /\ processor.data_profile.duplicate_rows = Repeats(processor.processed_df)
        /\ findings.anomalies.duplicates.count \in 0..(Len(processor.processed_df.rows) - 1)
        /\ findings.anomalies.duplicates.percentage
               = Num(Repeats(processor.processed_df) * 100, Len(processor.processed_df.rows))

\* duplicates that do not follow their first occurrence directly, one row
\* occurring more than twice
C11_RepeatsApart ==
    /\ AnomaliesReported
    /\ findings.anomalies.duplicates.count >= 2
    /\ \E i, j \in 1..Len(processor.processed_df.rows) :
           /\ i + 1 < j
           /\ processor.processed_df.rows[i] = processor.processed_df.rows[j]
           /\ processor.processed_df.rows[i] # processor.processed_df.rows[i + 1]
    /\ \E i, j, h \in 1..Len(processor.processed_df.rows) :
           /\ i < j /\ j < h
           /\ processor.processed_df.rows[i] = processor.processed_df.rows[j]
           /\ processor.processed_df.rows[j] = processor.processed_df.rows[h]

\* the number of null cells of a dataset
Nulls(df) ==
    Cardinality({ij \in (1..Len(df.rows)) \X (1..Len(df.cols)) : IsNa(df.rows[ij[1]][ij[2]])})

SameShape(df, other) == Len(df.rows) = Len(other.rows) /\ Len(df.cols) = Len(other.cols)

\* the states in which a completeness score of the dataset is shown, and the
\* score: the gauge of the anomalies page, the summary of the insights page
CompletenessShown == findings.op \in {"anomalies", "insights"}

ShownCompleteness ==
    IF findings.op = "anomalies" THEN findings.quality.completeness_score
    ELSE findings.summary.data_quality.completeness

\* the score that the routine behind the shown one computes for a dataset
CompletenessFor(other) ==
    IF findings.op = "anomalies"
    THEN visualize_data_quality_score(AnomalyDetector(other, <<>>)).completeness_score
    ELSE _calculate_quality_score(other).completeness

\* C12: with the numbers of rows and columns fixed, the completeness score
\* of both quality-score routines does not increase with the number of null
\* cells; it is 100 for a dataset without null cells and 0 for a dataset of
\* null cells only.
C12_CompletenessMonotone ==
    CompletenessShown =>
        /\ \A other \in ReportFrames :
               (SameShape(processor.processed_df, other)
                    /\ Nulls(other) >= Nulls(processor.processed_df))
                   => ~XLt(ShownCompleteness, CompletenessFor(other))
        /\ Nulls(processor.processed_df) = 0 => ShownCompleteness = IntVal(100)
        /\ Nulls(processor.processed_df)
               = Len(processor.processed_df.rows) * Len(processor.processed_df.cols)
               => ShownCompleteness = IntVal(0)

\* a score strictly between 0 and 100, with a dataset of the same shape that
\* has more null cells and a strictly lower score, and one of null cells only
C12_ScoreFalls ==
    /\ CompletenessShown
    /\ XLt(IntVal(0), ShownCompleteness) /\ XLt(ShownCompleteness, IntVal(100))
    /\ \E other \in ReportFrames :
           /\ SameShape(processor.processed_df, other)
           /\ Nulls(other) > Nulls(processor.processed_df)
           /\ XLt(CompletenessFor(other), ShownCompleteness)
    /\ \E other \in ReportFrames :
           /\ SameShape(processor.processed_df, other)
           /\ Nulls(other) = Len(other.rows) * Len(other.cols)
           /\ CompletenessFor(other) = IntVal(0)

(***************************************************************************)
(* Properties of trend analysis, checked under SpecTrends.  The values of  *)
(* the columns are integers, so that means are compared through sums.      *)
(***************************************************************************)
\* the non-null values of the column named col of the analysed dataset, as
\* integers and in row order
TrendSeries(col) ==
    [i \in 1..Len(NonNull(col)) |-> NonNull(col)[i].n]

RECURSIVE Total(_)
Total(q) == IF q = <<>> THEN 0 ELSE Head(q) + Total(Tail(q))

FirstHalf(q) == SubSeq(q, 1, Len(q) \div 2)

SecondHalf(q) == SubSeq(q, (Len(q) \div 2) + 1, Len(q))

\* mean(SecondHalf(q)) > (p / 10) * mean(FirstHalf(q)), for halves with values
SecondAbove(q, p) ==
    10 * Total(SecondHalf(q)) * Len(FirstHalf(q))
        > p * Total(FirstHalf(q)) * Len(SecondHalf(q))

SecondBelow(q, p) ==
    10 * Total(SecondHalf(q)) * Len(FirstHalf(q))
        < p * Total(FirstHalf(q)) * Len(SecondHalf(q))

\* the rule of the claim
C13_Expected(q) ==
    IF Len(q) < 2 THEN "insufficient_data"
    ELSE IF SecondAbove(q, 11) THEN "increasing"
    ELSE IF SecondBelow(q, 9) THEN "decreasing"
    ELSE "stable"

\* the mean of the second half is the mean of the first half, which is not
\* 0, plus 15% of its magnitude
FifteenPercentAbove(q) ==
    /\ Len(q) >= 2
    /\ Total(FirstHalf(q)) # 0
    /\ 100 * Total(SecondHalf(q)) * Len(FirstHalf(q))
           = (100 * Total(FirstHalf(q)) + 15 * Abs(Total(FirstHalf(q)))) * Len(SecondHalf(q))

\* C13: the trend_direction of a numeric column is computed from its
\* non-null values in row order, split at floor(n/2): insufficient_data for
\* fewer than two values, else increasing if the mean of the second half is
\* above 1.1 times the mean of the first, else decreasing if it is below 0.9
\* times it, else stable; a column whose second-half mean is 15% above its
\* first-half mean is increasing.
C13_TrendDirection ==
    findings.op = "_analyze_numeric_trends" =>
        \A i \in DOMAIN findings.value :
            /\ findings.value[i].trend_direction
                   = C13_Expected(TrendSeries(findings.value[i].col))
            /\ FifteenPercentAbove(TrendSeries(findings.value[i].col))
                   => findings.value[i].trend_direction = "increasing"

\* a column with a null cell whose second half is 15% above its first and
\* that is reported increasing
C13_FifteenPercent ==
    /\ findings.op = "_analyze_numeric_trends"
    /\ Len(findings.value) = 1
    /\ Len(TrendSeries(findings.value[1].col)) = 3
    /\ Len(analyzer.df.rows) = 4
    /\ FifteenPercentAbove(TrendSeries(findings.value[1].col))
    /\ findings.value[1].trend_direction = "increasing"

\* the states in which generate_business_actions has returned its list for
\* the loaded dataset, and the list
ActionsGenerated == findings.op = "insights"

\* completeness and uniqueness of the loaded dataset, in percent, and its
\* duplicate rate
Completeness ==
    Num((Len(processor.processed_df.rows) * Len(processor.processed_df.cols)
             - Nulls(processor.processed_df)) * 100,
        Len(processor.processed_df.rows) * Len(processor.processed_df.cols))

Uniqueness ==
    Num((Len(processor.processed_df.rows) - Repeats(processor.processed_df)) * 100,
        Len(processor.processed_df.rows))

DuplicateRate == Num(Repeats(processor.processed_df), Len(processor.processed_df.rows))

\* 0.6 * completeness + 0.4 * uniqueness - 10 * duplicate rate
CompositeScore ==
    XSub(XAdd(XScale(Completeness, 6, 10), XScale(Uniqueness, 4, 10)),
         XScale(DuplicateRate, 10, 1))

\* completeness - 10 * duplicate rate
PenalisedCompleteness == XSub(Completeness, XScale(DuplicateRate, 10, 1))

\* the actions of the governance rule in the list
Governance(category) ==
    SelectSeq(findings.actions, LAMBDA a : a.Category = category)

\* the governance actions are those that the rule gives for the score
GovernanceFor(score) ==
    /\ Len(Governance("Data Governance Crisis")) = (IF XLt(score, IntVal(80)) THEN 1 ELSE 0)
    /\ Len(Governance("Data Excellence")) = (IF XLt(score, IntVal(90)) THEN 0 ELSE 1)
    /\ \A i \in DOMAIN findings.actions :
           /\ findings.actions[i].Category = "Data Governance Crisis"
                  => findings.actions[i].Priority = "Critical Priority"
           /\ findings.actions[i].Category = "Data Excellence"
                  => findings.actions[i].Priority = "Strategic Opportunity"

\* C14: the governance rule scores the dataset as 0.6 * completeness
\* + 0.4 * uniqueness - 10 * duplicate rate and emits exactly one Critical
\* Data Governance Crisis action when the score is below 80, exactly one
\* Strategic Data Excellence action when it is at least 90, and no
\* governance action in between.
C14_GovernanceRule == ActionsGenerated => GovernanceFor(CompositeScore)

\* what the code does: the score of the rule is completeness - 10 * duplicate
\* rate, without the weights and without uniqueness
C14_RuleOnPenalisedCompleteness == ActionsGenerated => GovernanceFor(PenalisedCompleteness)

\* a dataset whose composite score is below 80 and for which the rule emits
\* Data Excellence
C14_ExcellenceBelowEighty ==
    /\ ActionsGenerated
    /\ XLt(CompositeScore, IntVal(80))
    /\ Len(Governance("Data Excellence")) = 1
    /\ Len(Governance("Data Governance Crisis")) = 0

\* the loaded dataset, its number of rows, and the number of null cells of
\* its column j
Loaded_df == processor.processed_df

RowCount == Len(Loaded_df.rows)

NullsOf(j) == Cardinality({i \in 1..RowCount : Loaded_df.rows[i][j].k = "null"})

\* the actions of the list with the category and the subject
ActionsOn(actions, category, subject) ==
    SelectSeq(actions, LAMBDA a : a.Category = category /\ a.subject = subject)

\* C15: for every column, the missing-data rule emits a Critical action when
\* the column's missing percentage is above 30, a High action when it is
\* above 10 and at most 30, and no missing-data action when it is at most 10.
C15_MissingDataRule ==
    ActionsGenerated =>
        \A j \in 1..Len(Loaded_df.cols) :
            /\ Len(ActionsOn(findings.actions, "Data Quality Crisis", Loaded_df.cols[j]))
                   = (IF NullsOf(j) * 100 > 30 * RowCount THEN 1 ELSE 0)
            /\ Len(ActionsOn(findings.actions, "Data Quality Issue", Loaded_df.cols[j]))
                   = (IF NullsOf(j) * 100 > 10 * RowCount /\ NullsOf(j) * 100 <= 30 * RowCount
                      THEN 1 ELSE 0)
            /\ \A i \in DOMAIN findings.actions :
                   findings.actions[i].subject = Loaded_df.cols[j] =>
                       /\ findings.actions[i].Category = "Data Quality Crisis"
                              => findings.actions[i].Priority = "Critical Priority"
                       /\ findings.actions[i].Category = "Data Quality Issue"
                              => findings.actions[i].Priority = "High Priority"

\* a dataset with one column exactly 30% missing, which gets the High action,
\* and another exactly 10% missing, which gets none
C15_AtTheThresholds ==
    /\ ActionsGenerated
    /\ \E j, k \in 1..Len(Loaded_df.cols) :
           /\ NullsOf(j) * 100 = 30 * RowCount
           /\ Len(ActionsOn(findings.actions, "Data Quality Issue", Loaded_df.cols[j])) = 1
           /\ NullsOf(k) * 100 = 10 * RowCount
           /\ Len(ActionsOn(findings.actions, "Data Quality Issue", Loaded_df.cols[k])) = 0
           /\ Len(ActionsOn(findings.actions, "Data Quality Crisis", Loaded_df.cols[k])) = 0

\* the states in which generate_executive_report has gathered the anomalies
\* and the actions of the loaded dataset
ReportGathered == findings.op = "generate_executive_report"

\* the sequence has the element
Lists(q, x) == \E i \in DOMAIN q : q[i] = x

\* C16: a column whose nulls exceed 70% of the rows is listed in
\* mostly_missing by the data-quality detector and also gets a Critical
\* missing-data action from the business-action generator.
C16_MostlyMissingIsCritical ==
    ReportGathered =>
        \A j \in 1..Len(Loaded_df.cols) :
            NullsOf(j) * 10 > 7 * RowCount =>
                /\ Lists(findings.gathered.anomalies.data_quality_issues.mostly_missing,
                         Loaded_df.cols[j])
                /\ \E i \in DOMAIN findings.gathered.actions :
                       findings.gathered.actions[i] =
                           action("Data Quality Crisis", "Critical Priority", Loaded_df.cols[j])

\* a column with 80% of its cells null, listed and given the action
C16_EightyPercentMissing ==
    /\ ReportGathered
    /\ \E j \in 1..Len(Loaded_df.cols) :
           /\ NullsOf(j) * 10 = 8 * RowCount
           /\ Lists(findings.gathered.anomalies.data_quality_issues.mostly_missing,
                    Loaded_df.cols[j])
           /\ Len(ActionsOn(findings.gathered.actions, "Data Quality Crisis",
                            Loaded_df.cols[j])) = 1

\* the categorical columns of the loaded dataset, as the analyzers select them
CategoricalCols ==
    cols_of_types(processor.column_datatypes, {"categorical", "boolean", "text"})

\* the columns typed categorical
CategoricalTyped ==
    {processor.column_datatypes[i].col : i \in
        {k \in DOMAIN processor.column_datatypes :
            processor.column_datatypes[k].type = "categorical"}}

\* the position of the named column in the loaded dataset
PositionOf(col) == CHOOSE j \in 1..Len(Loaded_df.cols) : Loaded_df.cols[j] = col

\* the column holds one and the same non-null value in every row
OneValue(col) ==
    /\ NullsOf(PositionOf(col)) = 0
    /\ \A i \in 1..RowCount :
           Loaded_df.rows[i][PositionOf(col)] = Loaded_df.rows[1][PositionOf(col)]

ListedConstant(col) ==
    Lists(findings.gathered.anomalies.data_quality_issues.constant_columns, col)

ConcentrationRisk(col) ==
    /\ ActionsOn(findings.gathered.actions, "Concentration Risk", col)
           = <<action("Concentration Risk", "High Priority", col)>>
    /\ ActionsOn(findings.gathered.actions, "Balanced Portfolio", col) = <<>>

\* C17, as stated: every categorical column that holds one and the same
\* non-null value in every row is listed in constant_columns and gets the
\* High Concentration Risk action and no Balanced Portfolio action.
C17_ConstantColumnIsRisk ==
    ReportGathered =>
        \A i \in DOMAIN CategoricalCols :
            OneValue(CategoricalCols[i]) =>
                ListedConstant(CategoricalCols[i]) /\ ConcentrationRisk(CategoricalCols[i])

\* C17, amended: such a column is listed in constant_columns; it gets the
\* High Concentration Risk action and no Balanced Portfolio action when it is
\* one of the first three categorical columns, and neither action otherwise.
C17_ConstantColumnAmongFirstThree ==
    ReportGathered =>
        \A i \in DOMAIN CategoricalCols :
            OneValue(CategoricalCols[i]) =>
                /\ ListedConstant(CategoricalCols[i])
                /\ i <= 3 => ConcentrationRisk(CategoricalCols[i])
                /\ i > 3 =>
                       /\ ActionsOn(findings.gathered.actions, "Concentration Risk",
                                    CategoricalCols[i]) = <<>>
                       /\ ActionsOn(findings.gathered.actions, "Balanced Portfolio",
                                    CategoricalCols[i]) = <<>>

\* a dataset whose third and fourth categorical columns both hold one value:
\* the third has the action, the fourth is only listed as constant
C17_ThirdAndFourth ==
    /\ ReportGathered
    /\ Len(CategoricalCols) = 4
    /\ CategoricalCols[3] \in CategoricalTyped
    /\ CategoricalCols[4] \in CategoricalTyped
    /\ OneValue(CategoricalCols[3])
    /\ OneValue(CategoricalCols[4])
    /\ ConcentrationRisk(CategoricalCols[3])
    /\ ListedConstant(CategoricalCols[4])
    /\ ~ConcentrationRisk(CategoricalCols[4])

\* the Critical and High actions of the list generated, and the Strategic ones
Urgent == SelectSeq(findings.actions, LAMBDA a : Tier(a) \in {0, 1})

Strategic == SelectSeq(findings.actions, LAMBDA a : Tier(a) = 2)

Least(m, n) == IF m < n THEN m ELSE n

\* C18: generate_top_3_insights returns min(3, number of generated actions)
\* actions: the first up-to-three Critical/High actions in sorted order,
\* followed by Strategic actions, in sorted order, only in the places that
\* the Critical/High actions leave free; the result is the first three
\* entries of the list returned by generate_business_actions.
C18_TopThreeIsPrefix ==
    ActionsGenerated =>
        /\ Len(findings.top_3) = Least(3, Len(findings.actions))
        /\ \A i \in DOMAIN findings.top_3 :
               /\ i <= Len(Urgent) => findings.top_3[i] = Urgent[i]
               /\ i > Len(Urgent) => findings.top_3[i] = Strategic[i - Len(Urgent)]
               /\ findings.top_3[i] = findings.actions[i]

\* a list of more than three actions with one or two Critical/High ones, so
\* that a Strategic action fills the third place
C18_Backfilled ==
    /\ ActionsGenerated
    /\ Len(findings.actions) > 3
    /\ Len(Urgent) \in {1, 2}
    /\ Len(findings.top_3) = 3
    /\ Tier(findings.top_3[3]) = 2

\* the states after one clean_data on the dataset loaded, which
\* original_df still holds, with the column types that load_data inferred
CleanedOnce == last.op = "clean_data" /\ Len(processor.cleaning_steps) = 2

TypesAtLoad == detect_column_types(processor.original_df).types

\* the first occurrence of every row, when duplicates are to be removed
Deduplicated(df, cfg) ==
    IF cfg.remove_duplicates
    THEN SelectRows(df, {i \in 1..Len(df.rows) :
                            \A h \in 1..(i - 1) : df.rows[h] # df.rows[i]})
    ELSE df

\* the null cells of column j of df
NullsIn(df, j) == Cardinality({i \in 1..Len(df.rows) : df.rows[i][j].k = "null"})

\* drop_cols keeps the columns whose null fraction is at most the threshold;
\* the other strategies are those of step 2
MissingHandled(df, cfg) ==
    IF cfg.handle_missing = "drop_cols"
    THEN SelectCols(df, {j \in 1..Len(df.cols) :
                            NullsIn(df, j) * 100 <= cfg.missing_threshold * Len(df.rows)})
    ELSE step_missing(df, cfg).df

\* the numeric columns of df with at least four values
Treated(df, types, j) ==
    /\ TypeOf(types, df.cols[j]) \in {"integer", "float"}
    /\ Len(dropna(ColumnAt(df, j))) >= 4

\* the values of df outside the fences of their column in df are replaced by
\* the median of that column in df
OutliersReplaced(df, types, cfg) ==
    IF ~cfg.remove_outliers THEN df
    ELSE Frame(df.cols,
               [i \in 1..Len(df.rows) |->
                   [j \in 1..Len(df.cols) |->
                       IF /\ Treated(df, types, j)
                          /\ Outside(df.rows[i][j],
                                     LowerFence(dropna(ColumnAt(df, j))),
                                     UpperFence(dropna(ColumnAt(df, j))))
                       THEN median(dropna(ColumnAt(df, j)))
                       ELSE df.rows[i][j]]])

\* C19: clean_data applies its steps in the order duplicates, missing
\* values, outliers, each on the result of the one before: drop_cols
\* measures the null fraction on the deduplicated rows and drops a column
\* exactly when the fraction is strictly greater than the threshold, and the
\* outlier step takes its IQR bounds and median from the values left by the
\* missing-value step.
C19_StepsInOrder ==
    CleanedOnce =>
        processor.processed_df =
            OutliersReplaced(
                MissingHandled(Deduplicated(processor.original_df, last.cfg), last.cfg),
                TypesAtLoad, last.cfg)

\* a column with more than half of its cells null before the duplicates are
\* removed and exactly half of them after, which drop_cols at 0.5 keeps
C19_KeptAfterDeduplication ==
    /\ CleanedOnce
    /\ last.cfg = Config(TRUE, "drop_cols", 50, FALSE)
    /\ NullsIn(processor.original_df, 1) * 2 > Len(processor.original_df.rows)
    /\ Len(processor.processed_df.rows) < Len(processor.original_df.rows)
    /\ Len(processor.processed_df.cols) = 2
    /\ NullsIn(processor.processed_df, 1) * 2 = Len(processor.processed_df.rows)

\* a column dropped for its null fraction on the deduplicated rows, which
\* is within the threshold on the rows as loaded
C19_DroppedAfterDeduplication ==
    /\ CleanedOnce
    /\ last.cfg.handle_missing = "drop_cols"
    /\ NullsIn(processor.original_df, 1) * 100
           <= last.cfg.missing_threshold * Len(processor.original_df.rows)
    /\ processor.processed_df.cols = << <<"b">> >>

\* an outlier replaced by the median of the values that fill_mean left
C19_OutlierAfterFill ==
    /\ CleanedOnce
    /\ last.cfg = Config(FALSE, "fill_mean", 50, TRUE)
    /\ NullsIn(processor.original_df, 2) > 0
    /\ \E i \in 1..Len(processor.original_df.rows) :
           /\ processor.original_df.rows[i][2] = IntVal(16)
           /\ processor.processed_df.rows[i][2] # IntVal(16)
           /\ processor.processed_df.rows[i][2]
                  # median(dropna(ColumnAt(processor.original_df, 2)))

\* generate_executive_report has returned; what the service did and the
\* dictionary returned
ReportReturned == findings.op = "generate_executive_report" /\ ~findings.awaiting

\* the call failed: it raised, or the response has no text at
\* data['content'][0]['text']
CallFailed == findings.outcome[1].kind # "text"

\* the fallback report is written from the summary and the actions gathered
\* for the request
FallbackFromGathered(report) ==
    /\ report.dataset_size = findings.gathered.summary.dataset_size
    /\ report.score = findings.gathered.summary.data_quality.score
    /\ report.grade = findings.gathered.summary.data_quality.grade
    /\ report.key_metrics = take(findings.gathered.summary.key_metrics, 3)
    /\ report.alerts = findings.gathered.summary.alerts
    /\ report.actions = take(findings.gathered.actions, 3)

\* C20: generate_executive_report never emits a partial report: when the
\* external call fails (timeout, network error, malformed response) it
\* returns success = False with the failure reason and a fallback report
\* built from the same summary and actions, otherwise success = True with
\* the generated report; no result carries both or neither, and every call
\* returns a result.
C20_ReportOrFallback ==
    ReportReturned =>
        /\ Len(findings.value) = 1
        /\ Len(findings.value[1].report) + Len(findings.value[1].fallback_report) = 1
        /\ CallFailed =>
               /\ findings.value[1].success = FALSE
               /\ Len(findings.value[1].error) = 1
               /\ findings.value[1].error[1] # ""
               /\ Len(findings.value[1].fallback_report) = 1
               /\ FallbackFromGathered(findings.value[1].fallback_report[1])
        /\ ~CallFailed =>
               /\ findings.value[1].success = TRUE
               /\ findings.value[1].report = <<findings.outcome[1].text>>
               /\ findings.value[1].error = <<>>

\* a response without 'content', answered with the fallback report, which
\* names an action
C20_MalformedResponse ==
    /\ ReportReturned
    /\ findings.outcome[1].kind = "no_content"
    /\ findings.value[1].success = FALSE
    /\ findings.value[1].error = <<"KeyError">>
    /\ Len(findings.value[1].fallback_report) = 1
    /\ findings.value[1].fallback_report[1].actions # <<>>

\* the dataset as load_data stored it and the types it inferred for it
AtLoad == processor.original_df

\* the result is absent, or the one expected
NoneOr(result, expected) == result = <<>> \/ result = <<expected>>

BeforeOutliers ==
    MissingHandled(Deduplicated(processor.original_df, last.cfg), last.cfg)

\* the non-null values of column j before the outlier step
ValuesBefore(j) == dropna(ColumnAt(BeforeOutliers, j))

\* the cell of BeforeOutliers lies strictly outside the IQR bounds of its
\* column
StrictlyOutside(i, j) ==
    Outside(BeforeOutliers.rows[i][j], LowerFence(ValuesBefore(j)), UpperFence(ValuesBefore(j)))

\* C22: with remove_outliers=True the outlier step leaves the row count and
\* every non-numeric column unchanged, changes only cells of numeric columns
\* whose value lies strictly outside the column's IQR bounds, sets each such
\* cell to the column's median, and afterwards every non-null value of a
\* treated column lies within the bounds computed before the replacement.
C22_OutliersReplacedNotDropped ==
    (CleanedOnce /\ last.cfg.remove_outliers) =>
        /\ Len(processor.processed_df.rows) = Len(BeforeOutliers.rows)
        /\ processor.processed_df.cols = BeforeOutliers.cols
        /\ \A i \in 1..Len(BeforeOutliers.rows), j \in 1..Len(BeforeOutliers.cols) :
               /\ processor.processed_df.rows[i][j] # BeforeOutliers.rows[i][j] =>
                      /\ BeforeOutliers.rows[i][j].k = "num"
                      /\ StrictlyOutside(i, j)
                      /\ processor.processed_df.rows[i][j] = median(ValuesBefore(j))
               /\ (Treated(BeforeOutliers, TypesAtLoad, j) /\ StrictlyOutside(i, j)) =>
                      processor.processed_df.rows[i][j] = median(ValuesBefore(j))
               /\ (/\ Treated(BeforeOutliers, TypesAtLoad, j)
                   /\ processor.processed_df.rows[i][j].k # "null") =>
                      ~Outside(processor.processed_df.rows[i][j],
                               LowerFence(ValuesBefore(j)), UpperFence(ValuesBefore(j)))

\* a cell outside the bounds of its column, set to the median of the
\* column, in a dataset with a row that lacks the number and that keeps its
\* six rows
C22_OneReplaced ==
    /\ CleanedOnce
    /\ last.cfg = Config(FALSE, "none", 50, TRUE)
    /\ Len(processor.processed_df.rows) = 6
    /\ Cardinality({i \in 1..6 :
                       /\ processor.original_df.rows[i][2] = IntVal(16)
                       /\ processor.processed_df.rows[i][2]
                              = median(dropna(ColumnAt(processor.original_df, 2)))
                       /\ processor.processed_df.rows[i][2] # IntVal(16)}) = 1
    /\ NullsIn(processor.processed_df, 2) = 1

\* the types that Type Inference gives on the dataset as it stands after the
\* duplicate and missing-value steps of the call
TypesBeforeOutliers == detect_column_types(BeforeOutliers).types

\* C23: the outlier step of clean_data treats the columns that Type
\* Inference classifies as integer or float on the dataset as it stands
\* after the duplicate and missing-value steps of the same call: the
\* published dataset is that dataset with the outliers of those columns
\* replaced.
C23_OutlierStepOnFreshTypes ==
    (CleanedOnce /\ last.cfg.remove_outliers) =>
        processor.processed_df
            = OutliersReplaced(BeforeOutliers, TypesBeforeOutliers, last.cfg)

\* what the code does: the outlier step treats the columns that were typed
\* integer or float by the inference before the call
C23_OutlierStepOnTypesBeforeCall ==
    (CleanedOnce /\ last.cfg.remove_outliers) =>
        processor.processed_df = OutliersReplaced(BeforeOutliers, TypesAtLoad, last.cfg)

\* a column typed categorical at the load and integer on the four rows that
\* drop_rows leaves, whose outlier is kept
C23_OutlierKept ==
    /\ CleanedOnce
    /\ last.cfg = Config(FALSE, "drop_rows", 50, TRUE)
    /\ TypeOf(TypesAtLoad, <<"b">>) = "categorical"
    /\ TypeOf(TypesBeforeOutliers, <<"b">>) = "integer"
    /\ Len(processor.processed_df.rows) = 4
    /\ \E i \in 1..4 :
           /\ processor.processed_df.rows[i][2] = IntVal(1)
           /\ Outside(IntVal(1), LowerFence(ColumnAt(processor.processed_df, 2)),
                      UpperFence(ColumnAt(processor.processed_df, 2)))

\* the report that the clean_data call returned
Report == last.report[1]

\* the counts of the report are those of the dataset before and after the
\* call, nothing is added, and rows and columns go only by the steps that
\* remove them
CountsAccount ==
    /\ Report.original_rows = Len(processor.original_df.rows)
    /\ Report.original_cols = Len(processor.original_df.cols)
    /\ Report.cleaned_rows = Len(processor.processed_df.rows)
    /\ Report.cleaned_cols = Len(processor.processed_df.cols)
    /\ Report.rows_removed = Report.original_rows - Report.cleaned_rows
    /\ Report.cols_removed = Report.original_cols - Report.cleaned_cols
    /\ Report.rows_removed >= 0
    /\ Report.cols_removed >= 0
    /\ Report.cols_removed > 0 => last.cfg.handle_missing = "drop_cols"
    /\ Report.rows_removed > 0 =>
           last.cfg.remove_duplicates \/ last.cfg.handle_missing = "drop_rows"

\* C24: the report returned by clean_data gives the shape of the working
\* dataset before and after the call, rows_removed and cols_removed are
\* their differences and are not negative, columns are removed only by
\* drop_cols and rows only by duplicate removal or drop_rows, and
\* steps_taken is empty exactly when the dataset is left unchanged.
C24_ReportAccountsExactly ==
    (CleanedOnce /\ last.returned) =>
        /\ CountsAccount
        /\ (Report.steps_taken = <<>>) <=> (processor.processed_df = processor.original_df)

\* what the code does: the counts account for the change, and a dataset
\* that changed has a step in steps_taken
C24_CountsAndChangesReported ==
    (CleanedOnce /\ last.returned) =>
        /\ CountsAccount
        /\ Report.steps_taken = <<>> => processor.processed_df = processor.original_df

\* fill_mean on a dataset without a null: a step is reported and nothing
\* has changed
C24_StepWithoutChange ==
    /\ CleanedOnce
    /\ last.returned
    /\ last.cfg = Config(FALSE, "fill_mean", 50, FALSE)
    /\ NullsIn(processor.original_df, 1) + NullsIn(processor.original_df, 2) = 0
    /\ processor.processed_df = processor.original_df
    /\ Report.steps_taken # <<>>

\* two rows of the published dataset are equal
EqualRows ==
    \E i, h \in 1..Len(processor.processed_df.rows) :
        i # h /\ processor.processed_df.rows[i] = processor.processed_df.rows[h]

\* C25: after a clean_data call with remove_duplicates=True, whatever the
\* missing-value strategy, the published working dataset contains no two
\* equal rows and its profile reports duplicate_rows = 0.
C25_NoDuplicatesAfterCleaning ==
    (CleanedOnce /\ last.returned /\ last.cfg.remove_duplicates) =>
        /\ ~EqualRows
        /\ processor.data_profile.duplicate_rows = 0

\* rows that differ in one column only, which drop_cols then drops
C25_EqualAfterDropCols ==
    /\ CleanedOnce
    /\ last.returned
    /\ last.cfg.remove_duplicates
    /\ last.cfg.handle_missing = "drop_cols"
    /\ ~last.cfg.remove_outliers
    /\ processor.original_df.rows = <<CleanRowKinds[1], CleanRowKinds[2]>>
    /\ processor.processed_df.cols = << <<"b">> >>
    /\ EqualRows
    /\ processor.data_profile.duplicate_rows = 1

\* C26: starting from a successfully loaded dataset, after any sequence of
\* clean_data calls with any configuration the working dataset still has at
\* least one row and at least one column.
C26_DatasetStaysNonEmpty ==
    (processor.cleaning_steps # <<>>) =>
        /\ Len(processor.processed_df.rows) >= 1
        /\ Len(processor.processed_df.cols) >= 1

\* drop_rows on a loaded dataset in which every row has a null: the call
\* returns its report and no row is left
C26_NoRowLeft ==
    /\ last.op = "clean_data"
    /\ last.returned
    /\ last.cfg.handle_missing = "drop_rows"
    /\ Len(processor.cleaning_steps) = 2
    /\ Len(processor.original_df.rows) >= 1
    /\ Len(processor.processed_df.rows) = 0
    /\ last.report[1].cleaned_rows = 0

\* at least two values, and the mean of the first half is the mean of the
\* second half
EqualHalves(q) ==
    /\ Len(q) >= 2
    /\ Total(FirstHalf(q)) * Len(SecondHalf(q)) = Total(SecondHalf(q)) * Len(FirstHalf(q))

\* C27: for a numeric column with at least two non-null values whose
\* first-half mean equals its second-half mean, of either sign,
\* trend_direction is stable, and neither the declining-trend nor the
\* growing-trend action is generated for it.
C27_EqualHalvesAreStable ==
    /\ findings.op = "_analyze_numeric_trends" =>
           \A i \in DOMAIN findings.value :
               EqualHalves(TrendSeries(findings.value[i].col))
                   => findings.value[i].trend_direction = "stable"
    /\ findings.op = "generate_business_actions" =>
           \A i \in DOMAIN analyzer.numeric_cols :
               EqualHalves(TrendSeries(analyzer.numeric_cols[i])) =>
                   /\ ActionsOn(findings.value, "Performance Alert",
                                analyzer.numeric_cols[i]) = <<>>
                   /\ ActionsOn(findings.value, "Growth Opportunity",
                                analyzer.numeric_cols[i]) = <<>>

\* what the code does: halves of equal mean are stable when the mean is not
\* negative and increasing when it is negative
C27_NegativeEqualHalvesIncrease ==
    findings.op = "_analyze_numeric_trends" =>
        \A i \in DOMAIN findings.value :
            EqualHalves(TrendSeries(findings.value[i].col)) =>
                findings.value[i].trend_direction
                    = (IF Total(TrendSeries(findings.value[i].col)) < 0
                       THEN "increasing" ELSE "stable")

\* a column that holds -20 in every row and gets the growing-trend action
C27_ConstantNegativeGrows ==
    /\ findings.op = "generate_business_actions"
    /\ analyzer.numeric_cols = << <<"a">> >>
    /\ Len(analyzer.df.rows) >= 2
    /\ \A i \in 1..Len(analyzer.df.rows) : analyzer.df.rows[i][1] = IntVal(-20)
    /\ Len(ActionsOn(findings.value, "Growth Opportunity", <<"a">>)) = 1

\* C28: for every non-empty dataset, the data-quality score that the
\* governance rule compares with 80 and 90 lies in the range [0, 100].
C28_GovernanceScoreInRange ==
    ActionsGenerated =>
        /\ ~XLt(quality_score(Loaded_df), IntVal(0))
        /\ ~XLt(IntVal(100), quality_score(Loaded_df))

\* what the code does: the score is at most 100 and above -10
C28_ScoreAboveMinusTen ==
    ActionsGenerated =>
        /\ XLt(IntVal(-10), quality_score(Loaded_df))
        /\ ~XLt(IntVal(100), quality_score(Loaded_df))

\* a dataset of ten rows without a value: nine of them are duplicates, the
\* score is -9 and the Data Governance Crisis action is emitted
C28_NegativeScore ==
    /\ ActionsGenerated
    /\ RowCount = ReportRows
    /\ Nulls(Loaded_df) = RowCount * Len(Loaded_df.cols)
    /\ Repeats(Loaded_df) = RowCount - 1
    /\ quality_score(Loaded_df) = IntVal(1 - RowCount)
    /\ PenalisedCompleteness = IntVal(1 - RowCount)
    /\ Len(Governance("Data Governance Crisis")) = 1

\* the names of the columns of the dataset that load_data stored; the
\* header names of every input file are distinct
StoredNames == processor.original_df.cols

\* normalizing the stored names again changes none of them
NamesNormalized == \A j \in DOMAIN StoredNames : clean_name(StoredNames[j]) = StoredNames[j]

\* C29: column-name normalization at load is idempotent and keeps names
\* distinct: distinct header names of the input remain distinct, so the
\* loaded dataset has as many differently named columns as the input and
\* each name maps to exactly one column.
C29_NamesStayDistinct ==
    ~processor.original_df.none =>
        /\ NamesNormalized
        /\ \A j, h \in DOMAIN StoredNames : j # h => StoredNames[j] # StoredNames[h]
        /\ \A j \in DOMAIN StoredNames :
               Cardinality(Positions(processor.original_df, StoredNames[j])) = 1

\* what the code does: the normalization is idempotent
C29_NormalizationIdempotent == ~processor.original_df.none => NamesNormalized

\* the header names 'A ' and 'a' are both stored as 'a', and the load has
\* failed on the dataset with the two columns of that name
C29_TwoColumnsOneName ==
    /\ last.op = "load_data"
    /\ ~last.returned
    /\ ~processor.original_df.none
    /\ StoredNames = << <<"a">>, <<"a">> >>
    /\ Cardinality(Positions(processor.original_df, <<"a">>)) = 2

\* the profile and the anomalies of the loaded dataset are both at hand
BothRan ==
    /\ findings.op = "analyses"
    /\ findings.profile # <<>>
    /\ findings.anomalies # <<>>

\* the positions of the first five numeric columns that hold a value
FirstFiveWithValue ==
    {j \in DOMAIN AtLoad.cols :
        /\ AtLoad.cols[j] \in Range(first_cols(cols_of_types(processor.column_datatypes,
                                                             {"integer", "float"})))
        /\ dropna(ColumnAt(AtLoad, j)) # <<>>}

\* column j has an entry in the outlier report
Reported(j) ==
    \E i \in DOMAIN findings.anomalies[1].outliers :
        findings.anomalies[1].outliers[i].col = AtLoad.cols[j]

\* the has_outliers flag of column j in the profile
Flagged(j) ==
    /\ findings.profile[1].columns[j].numeric # <<>>
    /\ findings.profile[1].columns[j].numeric[1].has_outliers

\* C30: for every column among the first five numeric columns that has at
\* least one non-null value, the profile's has_outliers is true exactly when
\* the column has an entry in the outlier report of the same dataset,
\* columns with fewer than four non-null values included.
C30_FlagAgreesWithReport ==
    BothRan => \A j \in FirstFiveWithValue : Flagged(j) <=> Reported(j)

\* what the code does: the flag and the report agree on the columns with
\* four non-null values or more, and a column with fewer is never flagged
C30_FlagAgreesFromFourValues ==
    BothRan =>
        \A j \in FirstFiveWithValue :
            IF Len(dropna(ColumnAt(AtLoad, j))) >= MinOutlierValues
            THEN Flagged(j) <=> Reported(j)
            ELSE ~Flagged(j)

\* a column of three values, two equal and the third the next float, that
\* the profile does not flag and the outlier report lists
C30_ThreeValuesReported ==
    /\ BothRan
    /\ Len(AtLoad.cols) = 1
    /\ Len(dropna(ColumnAt(AtLoad, 1))) = 3
    /\ 1 \in FirstFiveWithValue
    /\ ~Flagged(1)
    /\ Reported(1)
    /\ findings.anomalies[1].outliers[1].count = 1
    /\ findings.anomalies[1].outliers[1].upper_bound = IntVal(FloatExact)
    /\ findings.anomalies[1].outliers[1].max_outlier = IntVal(FloatExact + 2)

====
